---- MODULE Spec2Model ----
(***************************************************************************)
(* State-machine model of the enhanced learning core                       *)
(* (src/supabase/functions/enhanced-learning/enhanced_learning_core.py):   *)
(* the gradient strategy, the Bayesian strategy, the tabular RL agent, the *)
(* learning engine and the request entry point.                            *)
(*                                                                         *)
(* Numbers.  Python floats are modelled as exact rationals <<n, d>> in     *)
(* lowest terms (d > 0); rounding of IEEE doubles is outside the model.    *)
(* Values that arrive in a request are dynamically typed in the source, so *)
(* they are tagged records [t, n, d]: t = "num" carries the rational n/d,  *)
(* t = "str" is a non-numeric value (a JSON string), t = "absent" is a     *)
(* missing key.                                                            *)
(***************************************************************************)
EXTENDS Integers, Sequences, FiniteSets, TLC

\* ---------------------------------------------------------------- bounds
\* Number of learn requests explored in one behaviour.
MaxCalls == 3
\* Modelled capacity of the engine's experience deque (10000 in the source)
\* and modelled length of the slice the analytics read (the last 100 records
\* in the source): the slice is shorter than the deque.
HistoryCapacity == 3
RecentWindow == 2
\* Modelled capacity of the gradient strategy's window (50 in the source);
\* the code only ever reads its last two slots.
WindowCapacity == 2
\* Modelled Q-table dimensions (1000 x 10 in the source).
StateSpaceSize == 2
ActionSpaceSize == 2
\* Largest numerator/denominator carried by the model's rationals: an
\* operation is explored only while its operands stay below it.
MaxMagnitude == 20000000
\* Number of learn requests explored by the specification of the bounded
\* history, and of direct updates of the Bayesian strategy.
MaxDeepCalls == 5
MaxObservations == 4
\* Number of Bayesian updates in the runs that ask the strategy for its next
\* parameters (the perturbation path opens at 3 observations).
MaxProposeObservations == 3
\* Number of updates of a directly constructed RL agent.
MaxAgentUpdates == 2
\* Number of updates in the runs that measure the policy strength, and the
\* largest numerator/denominator of a Q-table entry in them.
MaxTableUpdates == 4
MaxTableMagnitude == 100
\* Largest numerator/denominator of the learning rate and the velocities in
\* the runs that follow the velocity map.
MaxVelocityMagnitude == 20000

\* The element of a one-element set.  The({ e : x \in {v} }) evaluates v
\* once and binds x to its value: the model's form of a local variable.
The(S) == CHOOSE x \in S : TRUE

\* ------------------------------------------------------------- rationals
Abs(x) == IF x < 0 THEN -x ELSE x

RECURSIVE GCD(_, _)
GCD(a, b) == IF b = 0 THEN a ELSE The({ GCD(b, r) : r \in {a % b} })

\* n/d in lowest terms, d > 0.
Lowest(n, d) == The({ <<n \div g, d \div g>> : g \in {GCD(Abs(n), d)} })
Rat(n, d) == The({ Lowest(x, y) : x \in {n}, y \in {d} })

Product(a, b) ==
    The({ Rat((a[1] \div g1) * (b[1] \div g2), (a[2] \div g2) * (b[2] \div g1))
          : g1 \in {GCD(Abs(a[1]), b[2])}, g2 \in {GCD(Abs(b[1]), a[2])} })
RMul(a, b) == The({ Product(x, y) : x \in {a}, y \in {b} })

Sum(a, b) ==
    The({ Rat(a[1] * (b[2] \div g) + b[1] * (a[2] \div g), (a[2] \div g) * b[2])
          : g \in {GCD(a[2], b[2])} })
RAdd(a, b) == The({ Sum(x, y) : x \in {a}, y \in {b} })

RNeg(a) == The({ <<-x[1], x[2]>> : x \in {a} })
RSub(a, b) == RAdd(a, RNeg(b))

Below(a, b) ==
    The({ a[1] * (b[2] \div g) < b[1] * (a[2] \div g) : g \in {GCD(a[2], b[2])} })
RLess(a, b) == The({ Below(x, y) : x \in {a}, y \in {b} })

RLeq(a, b) == ~RLess(b, a)
RMin(a, b) == The({ IF Below(y, x) THEN y ELSE x : x \in {a}, y \in {b} })
RMax(a, b) == The({ IF Below(x, y) THEN y ELSE x : x \in {a}, y \in {b} })
Small(a) == Abs(a[1]) <= MaxMagnitude /\ a[2] <= MaxMagnitude

Zero == <<0, 1>>
One == <<1, 1>>

\* ------------------------------------------------- dynamically typed values
Num(r) == [t |-> "num", n |-> r[1], d |-> r[2]]
StrVal == [t |-> "str", n |-> 0, d |-> 1]
AbsentVal == [t |-> "absent", n |-> 0, d |-> 1]
IsNum(v) == v.t = "num"
RatOf(v) == <<v.n, v.d>>

\* dict.get(key, default): the default only when the key is missing.
Get(v, default) == IF v.t = "absent" THEN default ELSE v

\* Variant: a full deque refuses the new element instead of dropping its
\* oldest one.
DequeAppend_dropNewest(q, x, maxlen) ==
    IF Len(q) < maxlen THEN Append(q, x) ELSE q

\* deque(maxlen).append: a full deque drops its oldest element.
DequeAppend(q, x, maxlen) ==
    IF Len(q) < maxlen THEN Append(q, x) ELSE Append(Tail(q), x)

\* ------------------------------------------------------ gradient strategy
\* Constructor defaults of AdaptiveGradientDescent.
DefaultLearningRate == <<1, 100>>
Momentum == <<9, 10>>
AdaptiveFactor == <<11, 10>>
DecayFactor == <<19, 20>>
Two == <<2, 1>>

\* Parameter names a gradient map may carry.
ParamNames == {"w", "b"}
NoVelocity == [p \in ParamNames |-> [has |-> FALSE, v |-> Zero]]

\* A gradients value: a map (its items in insertion order), something that
\* is not a map, or a missing key.
GradMap(items) == [t |-> "map", items |-> items]
GradNotMap == [t |-> "notmap", items |-> <<>>]
GradAbsent == [t |-> "absent", items |-> <<>>]

AdaptiveGradientDescent_init(learning_rate) ==
    [learning_rate |-> learning_rate,
     base_learning_rate |-> learning_rate,
     velocity |-> NoVelocity,
     performance_history |-> <<>>]

\* Python's a > b on two request values: defined on two numbers and on two
\* strings (the model has one string, so it is never greater than itself);
\* a number against a string raises TypeError.
Comparable(a, b) == a.t = b.t
Greater(a, b) == IsNum(a) /\ IsNum(b) /\ RLess(RatOf(b), RatOf(a))

\* Variant: the increase is not capped at twice the base rate.
AdjustedRate_nocap(self, hist) ==
    IF Len(hist) >= 2
    THEN IF Greater(hist[Len(hist)], hist[Len(hist) - 1])
         THEN RMul(self.learning_rate, AdaptiveFactor)
         ELSE RMul(self.learning_rate, DecayFactor)
    ELSE self.learning_rate

\* Variant: the two branches of the rule are exchanged.
AdjustedRate_swapped(self, hist) ==
    IF Len(hist) >= 2
    THEN IF Greater(hist[Len(hist)], hist[Len(hist) - 1])
         THEN RMul(self.learning_rate, DecayFactor)
         ELSE RMin(RMul(self.learning_rate, AdaptiveFactor),
                   RMul(self.base_learning_rate, Two))
    ELSE self.learning_rate

\* Lines 60-65: the two-point rule on the window's last two values.
AdjustedRate(self, hist) ==
    IF Len(hist) >= 2
    THEN IF Greater(hist[Len(hist)], hist[Len(hist) - 1])
         THEN RMin(RMul(self.learning_rate, AdaptiveFactor),
                   RMul(self.base_learning_rate, Two))
         ELSE RMul(self.learning_rate, DecayFactor)
    ELSE self.learning_rate

\* Line 70: momentum * velocity[p] + learning_rate * gradient.
NextVelocity(old, rate, gradient) ==
    RAdd(RMul(Momentum, old), RMul(rate, gradient))

\* Lines 67-71: the velocity loop, in the map's order; multiplying the rate
\* by a non-number raises after velocity[p] = 0 was stored for a new p.
RECURSIVE ApplyGradients(_, _, _)
ApplyGradients(velocity, rate, items) ==
    IF items = <<>>
    THEN [velocity |-> velocity, raised |-> FALSE]
    ELSE The({
        IF IsNum(it.value)
        THEN The({ ApplyGradients(next, rate, Tail(items))
                   : next \in {[velocity EXCEPT ![it.name] =
                                  [has |-> TRUE,
                                   v |-> NextVelocity(old, rate, RatOf(it.value))]]} })
        ELSE [velocity |-> [velocity EXCEPT ![it.name] = [has |-> TRUE, v |-> old]],
              raised |-> TRUE]
        : it \in {Head(items)},
          old \in {IF velocity[Head(items).name].has
                   THEN velocity[Head(items).name].v ELSE Zero} })

\* Variant: the velocity loop uses the learning rate from before the
\* adjustment.
UpdateWithWindow_staleRate(self, hist, gradients) ==
    IF Len(hist) >= 2 /\ ~Comparable(hist[Len(hist)], hist[Len(hist) - 1])
    THEN [self |-> [self EXCEPT !.performance_history = hist], raised |-> TRUE]
    ELSE The({
        IF gradients.t # "map"
        THEN [self |-> [self EXCEPT !.performance_history = hist,
                                    !.learning_rate = rate],
              raised |-> TRUE]
        ELSE The({ [self |-> [self EXCEPT !.performance_history = hist,
                                         !.learning_rate = rate,
                                         !.velocity = vel.velocity],
                    raised |-> vel.raised]
                   : vel \in {ApplyGradients(self.velocity, self.learning_rate,
                                              gradients.items)} })
        : rate \in {AdjustedRate(self, hist)} })

\* Variant: momentum decay is applied to the velocities the gradients do
\* not name, and an entry is created for every parameter.
UpdateWithWindow_decayAll(self, hist, gradients) ==
    IF Len(hist) >= 2 /\ ~Comparable(hist[Len(hist)], hist[Len(hist) - 1])
    THEN [self |-> [self EXCEPT !.performance_history = hist], raised |-> TRUE]
    ELSE The({
        IF gradients.t # "map"
        THEN [self |-> [self EXCEPT !.performance_history = hist,
                                    !.learning_rate = rate],
              raised |-> TRUE]
        ELSE The({ [self |-> [self EXCEPT
                        !.performance_history = hist,
                        !.learning_rate = rate,
                        !.velocity =
                            [p \in ParamNames |->
                                IF \E i \in 1 .. Len(gradients.items) :
                                       gradients.items[i].name = p
                                THEN vel.velocity[p]
                                ELSE [has |-> TRUE,
                                      v |-> RMul(Momentum, vel.velocity[p].v)]]],
                    raised |-> vel.raised]
                   : vel \in {ApplyGradients(self.velocity, rate, gradients.items)} })
        : rate \in {AdjustedRate(self, hist)} })

\* Lines 59-71 once the window holds the new value.
UpdateWithWindow(self, hist, gradients) ==
    IF Len(hist) >= 2 /\ ~Comparable(hist[Len(hist)], hist[Len(hist) - 1])
    THEN [self |-> [self EXCEPT !.performance_history = hist], raised |-> TRUE]
    ELSE The({
        IF gradients.t # "map"
        THEN [self |-> [self EXCEPT !.performance_history = hist,
                                    !.learning_rate = rate],
              raised |-> TRUE]
        ELSE The({ [self |-> [self EXCEPT !.performance_history = hist,
                                         !.learning_rate = rate,
                                         !.velocity = vel.velocity],
                    raised |-> vel.raised]
                   : vel \in {ApplyGradients(self.velocity, rate, gradients.items)} })
        : rate \in {AdjustedRate(self, hist)} })

\* AdaptiveGradientDescent.update(current_state, feedback): the strategy
\* after the call and whether the call raised (state written before the
\* raise stays written).
AdaptiveGradientDescent_update(self, feedback) ==
    The({ UpdateWithWindow(self, hist, Get(feedback.gradients, GradMap(<<>>)))
          : hist \in {DequeAppend(self.performance_history,
                                  Get(feedback.performance, Num(Zero)),
                                  WindowCapacity)} })

\* ------------------------------------------------------ Bayesian strategy
\* float('-inf'), the initial best_score.
NegInf == [t |-> "-inf", n |-> 0, d |-> 1]

\* Parameter maps are opaque: "None" is Python's None, "notmap" a value
\* without .copy().
ParameterMaps == {"{}", "{learning_rate: 0.05}", "{momentum: 0.9}"}

BayesianOptimizer_init ==
    [observations |-> <<>>,
     parameter_history |-> <<>>,
     best_params |-> "None",
     best_score |-> NegInf]

\* Variant: >= in place of >.
ExceedsBest_orEqual(performance, best_score) ==
    IF best_score.t = "-inf" THEN TRUE
    ELSE RLeq(RatOf(best_score), RatOf(performance))

\* performance > self.best_score (line 103); every number exceeds -inf.
ExceedsBest(performance, best_score) ==
    IF best_score.t = "-inf" THEN TRUE
    ELSE RLess(RatOf(best_score), RatOf(performance))

\* BayesianOptimizer.update(current_state, feedback).
BayesianOptimizer_update(self, parameters, feedback) ==
    LET params == IF parameters = "absent" THEN "{}" ELSE parameters
        performance == Get(feedback.performance, Num(Zero))
        observed == [self EXCEPT !.observations = Append(@, performance)]
        recorded == [observed EXCEPT !.parameter_history = Append(@, params)]
    IN  IF params = "notmap"
        THEN [self |-> observed, raised |-> TRUE]
        ELSE IF ~IsNum(performance)
        THEN [self |-> recorded, raised |-> TRUE]
        ELSE IF ExceedsBest(performance, self.best_score)
        THEN [self |-> [recorded EXCEPT !.best_score = performance,
                                        !.best_params = params],
              raised |-> FALSE]
        ELSE [self |-> recorded, raised |-> FALSE]

\* The parameter space the engine declares (lines 193-196).
DeclaredParams == {"learning_rate", "confidence_threshold"}
ParameterSpace ==
    [p \in DeclaredParams |->
        IF p = "learning_rate" THEN [min |-> <<1, 1000>>, max |-> <<1, 10>>]
        ELSE [min |-> <<1, 2>>, max |-> <<19, 20>>]]

\* The names a parameter map may carry, and the content of each map.
AllParamNames == DeclaredParams \cup {"momentum"}
NoParams == [p \in AllParamNames |-> [has |-> FALSE, v |-> Zero]]
ParamItems(params) ==
    IF params = "{learning_rate: 0.05}"
    THEN [NoParams EXCEPT !["learning_rate"] = [has |-> TRUE, v |-> <<1, 20>>]]
    ELSE IF params = "{momentum: 0.9}"
    THEN [NoParams EXCEPT !["momentum"] = [has |-> TRUE, v |-> <<9, 10>>]]
    ELSE NoParams

\* np.random.uniform(min, max) = min + u * (max - min) for a draw u in
\* [0, 1), and np.random.normal(0, scale) = z * scale for a standard
\* normal draw z: the draws the model explores.
UniformDraws == {<<0, 1>>, <<1, 2>>}
NormalDraws == {<<-20, 1>>, <<1, 1>>, <<20, 1>>}
NoiseFactor == <<1, 10>>

Uniform(min, max, u) == RAdd(min, RMul(u, RSub(max, min)))

\* Variant: no clipping.
Clip_none(x, min, max) == x

\* np.clip(x, min, max).
Clip(x, min, max) == RMin(RMax(x, min), max)

\* What get_next_parameters gives its caller: kind is "none" (not called
\* yet), "returned" or "raised"; path is the branch taken and n_obs the
\* number of observations it saw.
NoProposal == [kind |-> "none", path |-> "", n_obs |-> 0, values |-> NoParams]

\* _random_sample (lines 118-122), given one uniform draw per parameter.
random_sample(u) ==
    [p \in AllParamNames |->
        IF p \in DeclaredParams
        THEN [has |-> TRUE,
              v |-> Uniform(ParameterSpace[p].min, ParameterSpace[p].max, u[p])]
        ELSE [has |-> FALSE, v |-> Zero]]

\* Lines 129-131 for one parameter: add the noise, clip.
Perturbed(p, v, z) ==
    Clip(RAdd(v, RMul(z, RMul(RSub(ParameterSpace[p].max, ParameterSpace[p].min),
                              NoiseFactor))),
         ParameterSpace[p].min, ParameterSpace[p].max)

\* _ucb_acquisition (lines 124-133): None and the empty map are falsy;
\* parameter_space[name] raises KeyError for a name that is not declared.
ucb_acquisition(self, u, z) ==
    The({
        IF \E p \in AllParamNames : best[p].has /\ p \notin DeclaredParams
        THEN [NoProposal EXCEPT !.kind = "raised", !.path = "perturb",
                                !.n_obs = Len(self.observations)]
        ELSE [kind |-> "returned", path |-> "perturb",
              n_obs |-> Len(self.observations),
              values |-> [p \in AllParamNames |->
                            IF best[p].has
                            THEN [has |-> TRUE, v |-> Perturbed(p, best[p].v, z[p])]
                            ELSE best[p]]]
        : best \in {IF self.best_params \in {"None", "{}"}
                    THEN random_sample(u)
                    ELSE ParamItems(self.best_params)} })

\* len(self.observations) < 3 (line 114).
ColdStart(self) == Len(self.observations) < 3

\* The draws one get_next_parameters call makes: a uniform draw for each
\* declared parameter when it samples (cold start, or no best parameters to
\* perturb), a normal draw for each parameter it perturbs; a draw that is
\* not made is 0 here.
Samples(self) == ColdStart(self) \/ self.best_params \in {"None", "{}"}
UniformDrawsOf(self) ==
    IF Samples(self) THEN [DeclaredParams -> UniformDraws]
    ELSE {[p \in DeclaredParams |-> Zero]}
NormalDrawsOf(self) ==
    { z \in [DeclaredParams -> NormalDraws \cup {Zero}] :
        \A p \in DeclaredParams :
            z[p] # Zero <=> /\ ~ColdStart(self)
                            /\ Samples(self) \/ ParamItems(self.best_params)[p].has }

\* BayesianOptimizer.get_next_parameters (lines 113-116).
get_next_parameters(self, u, z) ==
    IF ColdStart(self)
    THEN [kind |-> "returned", path |-> "cold", n_obs |-> Len(self.observations),
          values |-> random_sample(u)]
    ELSE ucb_acquisition(self, u, z)

\* --------------------------------------------------------------- RL agent
\* Constructor defaults of ReinforcementLearningAgent.
RLLearningRate == <<1, 10>>
DiscountFactor == <<19, 20>>
InitialEpsilon == <<1, 10>>
EpsilonDecay == <<199, 200>>
EpsilonFloor == <<1, 100>>

States == 0 .. (StateSpaceSize - 1)
Actions == 0 .. (ActionSpaceSize - 1)

ReinforcementLearningAgent_init ==
    [state_space_size |-> StateSpaceSize,
     action_space_size |-> ActionSpaceSize,
     learning_rate |-> RLLearningRate,
     discount_factor |-> DiscountFactor,
     epsilon |-> InitialEpsilon,
     epsilon_decay |-> EpsilonDecay,
     q_table |-> [s \in States |-> [a \in Actions |-> Zero]],
     experience_buffer |-> <<>>]

\* Contexts (and next_state values) are opaque: "{}" is the empty map,
\* "notmap" a value without .items(), "absent" a missing key.
MapContexts == {"{}", "{market: up}"}

\* str(sorted(state.items())), the string get_state_hash hashes.
StateStr(state) == IF state = "{}" THEN "[]" ELSE state

\* The strings whose hash the process draws at start-up (hash('') is 0 in
\* every process).
HashedStrings == {"[]", "buy"}
HashSpan == IF StateSpaceSize > ActionSpaceSize THEN StateSpaceSize ELSE ActionSpaceSize
PyHash(h, s) == IF s = "" THEN 0 ELSE h[s]

\* get_state_hash (lines 150-152), for a state that is a map.
get_state_hash(self, h, state) == PyHash(h, StateStr(state)) % self.state_space_size

\* np.max of one row of the table.
RECURSIVE RowMaxUpTo(_, _)
RowMaxUpTo(row, a) ==
    IF a = 0 THEN row[0] ELSE RMax(row[a], RowMaxUpTo(row, a - 1))
RowMax(self, s) == RowMaxUpTo(self.q_table[s], self.action_space_size - 1)

\* Variant: the last maximal column.
RECURSIVE ArgMax_last(_, _)
ArgMax_last(row, a) ==
    IF a = 0 THEN 0
    ELSE IF \A b \in 0 .. (a - 1) : RLeq(row[b], row[a]) THEN a
    ELSE ArgMax_last(row, a - 1)

\* np.argmax of a row whose last column is a: the first maximal column.
RECURSIVE ArgMax(_, _)
ArgMax(row, a) ==
    IF a = 0 THEN 0
    ELSE IF \A b \in 0 .. (a - 1) : RLess(row[b], row[a]) THEN a
    ELSE ArgMax(row, a - 1)

\* select_action (lines 154-159), given the value np.random.random()
\* returns and the value np.random.randint would return: raises when state
\* is not a map.
select_action(self, h, state, random, randint) ==
    IF state \notin MapContexts
    THEN [raised |-> TRUE, action |-> 0]
    ELSE IF RLess(random, self.epsilon)
    THEN [raised |-> FALSE, action |-> randint]
    ELSE [raised |-> FALSE,
          action |-> ArgMax(self.q_table[get_state_hash(self, h, state)],
                            self.action_space_size - 1)]

\* Variant: the continuation term is added on terminal steps too.
Target_ignoresDone(self, reward, next_state_hash, done) ==
    RAdd(reward, RMul(self.discount_factor, RowMax(self, next_state_hash)))

\* Lines 166-169: the learning target.
Target(self, reward, next_state_hash, done) ==
    IF done THEN reward
    ELSE RAdd(reward, RMul(self.discount_factor, RowMax(self, next_state_hash)))

\* Lines 171-172: the new value of the updated cell.
NewQ(self, current_q, target) ==
    RAdd(current_q, RMul(self.learning_rate, RSub(target, current_q)))

\* Variant: no floor.
DecayedEpsilon_nofloor(self) == RMul(self.epsilon, self.epsilon_decay)

\* Variant: epsilon is divided by the decay factor.
DecayedEpsilon_inverted(self) ==
    RMax(EpsilonFloor,
         RMul(self.epsilon, <<self.epsilon_decay[2], self.epsilon_decay[1]>>))

\* Line 174.
DecayedEpsilon(self) == RMax(EpsilonFloor, RMul(self.epsilon, self.epsilon_decay))

\* Variant: the new value is written to every cell of the state's row.
update_q_value_wholeRow(self, h, state, action, reward, next_state, done) ==
    IF state \notin MapContexts \/ next_state \notin MapContexts \/ ~IsNum(reward)
    THEN [self |-> self, raised |-> TRUE]
    ELSE The({
        The({ [self |-> [self EXCEPT !.q_table[state_hash] = [a \in Actions |-> new_q],
                                     !.epsilon = eps],
               raised |-> FALSE]
              : new_q \in {NewQ(self, self.q_table[state_hash][action], target)},
                eps \in {DecayedEpsilon(self)} })
        : state_hash \in {get_state_hash(self, h, state)},
          target \in {Target(self, RatOf(reward),
                             get_state_hash(self, h, next_state), done)} })

\* Variant: epsilon decays before the hashes and the target are computed, so
\* a call that raises has already decayed it.
update_q_value_decayFirst(self, h, state, action, reward, next_state, done) ==
    IF state \notin MapContexts \/ next_state \notin MapContexts \/ ~IsNum(reward)
    THEN [self |-> [self EXCEPT !.epsilon = DecayedEpsilon(self)], raised |-> TRUE]
    ELSE The({
        The({ [self |-> [self EXCEPT !.q_table[state_hash][action] = new_q,
                                     !.epsilon = eps],
               raised |-> FALSE]
              : new_q \in {NewQ(self, self.q_table[state_hash][action], target)},
                eps \in {DecayedEpsilon(self)} })
        : state_hash \in {get_state_hash(self, h, state)},
          target \in {Target(self, RatOf(reward),
                             get_state_hash(self, h, next_state), done)} })

\* update_q_value (lines 161-174): raises, before anything is written, when
\* state or next_state is not a map or the reward is not a number.
update_q_value(self, h, state, action, reward, next_state, done) ==
    IF state \notin MapContexts \/ next_state \notin MapContexts \/ ~IsNum(reward)
    THEN [self |-> self, raised |-> TRUE]
    ELSE The({
        The({ [self |-> [self EXCEPT !.q_table[state_hash][action] = new_q,
                                     !.epsilon = eps],
               raised |-> FALSE]
              : new_q \in {NewQ(self, self.q_table[state_hash][action], target)},
                eps \in {DecayedEpsilon(self)} })
        : state_hash \in {get_state_hash(self, h, state)},
          target \in {Target(self, RatOf(reward),
                             get_state_hash(self, h, next_state), done)} })

\* 1 / b for b # 0, and a / b.
Reciprocal(b) == IF b[1] > 0 THEN <<b[2], b[1]>> ELSE <<-b[2], -b[1]>>
RDiv(a, b) == RMul(a, Reciprocal(b))

\* The table's entries in one row, as np.var and np.max see them.
CellCount(self) == self.state_space_size * self.action_space_size
Flat(self) ==
    [i \in 0 .. (CellCount(self) - 1) |->
        self.q_table[i \div self.action_space_size][i % self.action_space_size]]

RECURSIVE RSumUpTo(_, _)
RSumUpTo(f, k) == IF k = 0 THEN f[0] ELSE RAdd(f[k], RSumUpTo(f, k - 1))

\* np.max(self.q_table) and np.var(self.q_table): the mean of the squared
\* distances from the mean.
TableMax(self) == RowMaxUpTo(Flat(self), CellCount(self) - 1)
TableMean(self) == RDiv(RSumUpTo(Flat(self), CellCount(self) - 1), <<CellCount(self), 1>>)
SquaredDistances(cells, mean) ==
    [i \in DOMAIN cells |-> The({ RMul(dist, dist) : dist \in {RSub(cells[i], mean)} })]
TableVariance(self) ==
    The({ RDiv(RSumUpTo(SquaredDistances(cells, mean), CellCount(self) - 1),
               <<CellCount(self), 1>>)
          : cells \in {Flat(self)}, mean \in {TableMean(self)} })

\* Variant: the ratio is returned as it is.
get_policy_strength_unclamped(self) ==
    The({ IF max_q = Zero THEN Zero ELSE RDiv(TableVariance(self), max_q)
          : max_q \in {TableMax(self)} })

\* get_policy_strength (lines 176-181).
get_policy_strength(self) ==
    The({ IF max_q = Zero THEN Zero ELSE RMin(One, RDiv(TableVariance(self), max_q))
          : max_q \in {TableMax(self)} })

\* ----------------------------------------------------- experience records
\* An outcome value: a map with its optional keys, something that is not a
\* map, or a missing key.  episode_done is "true", "false" or "absent".
Outcome(performance, gradients, next_state, episode_done) ==
    [t |-> "map", performance |-> performance, gradients |-> gradients,
     next_state |-> next_state, episode_done |-> episode_done]
EmptyOutcome == Outcome(AbsentVal, GradAbsent, "absent", "absent")
OutcomeNotMap == [EmptyOutcome EXCEPT !.t = "notmap"]
OutcomeAbsent == [EmptyOutcome EXCEPT !.t = "absent"]

\* The experience of a learn request: a map with its optional keys, or a
\* value that is not a map.  action_taken is a string, "<list>" (an
\* unhashable value) or "<absent>".
ExperienceData(context, action_taken, outcome, reward, confidence) ==
    [t |-> "map", context |-> context, action_taken |-> action_taken,
     outcome |-> outcome, reward |-> reward, confidence |-> confidence]
EmptyExperience ==
    ExperienceData("absent", "<absent>", OutcomeAbsent, AbsentVal, AbsentVal)
ExperienceNotMap == [EmptyExperience EXCEPT !.t = "notmap"]

\* {action_taken: "buy", outcome: {performance: p}, reward: r}
Buy(p, r) ==
    ExperienceData("absent", "buy", Outcome(Num(p), GradAbsent, "absent", "absent"),
                   Num(r), AbsentVal)

\* The experiences a learn request may carry.
Experiences ==
    { EmptyExperience,
      Buy(<<4, 5>>, <<1, 1>>),
      Buy(<<3, 5>>, <<-1, 2>>),
      ExperienceNotMap,
      \* outcome is not a map
      ExperienceData("{}", "buy", OutcomeNotMap, Num(One), AbsentVal),
      \* context is not a map
      ExperienceData("notmap", "buy",
                     Outcome(Num(<<9, 10>>), GradAbsent, "absent", "absent"),
                     Num(One), AbsentVal),
      \* performance is a string
      ExperienceData("{}", "buy", Outcome(StrVal, GradAbsent, "absent", "absent"),
                     Num(One), AbsentVal),
      \* a terminal step with a gradient
      ExperienceData("{}", "buy",
                     Outcome(Num(<<9, 10>>),
                             GradMap(<<[name |-> "w", value |-> Num(One)]>>),
                             "{}", "true"),
                     Num(One), Num(<<9, 10>>)),
      \* a gradient that is a string, after one that is a number
      ExperienceData("{}", "",
                     Outcome(Num(<<7, 10>>),
                             GradMap(<<[name |-> "w", value |-> Num(<<-1, 1>>)],
                                       [name |-> "b", value |-> StrVal]>>),
                             "absent", "absent"),
                     Num(Zero), AbsentVal),
      \* next_state is not a map
      ExperienceData("{}", "buy",
                     Outcome(Num(<<1, 2>>), GradAbsent, "notmap", "false"),
                     Num(One), AbsentVal) }

\* LearningExperience(...) as learn_from_experience builds it (lines
\* 212-219): missing keys take their defaults.
LearningExperience(experience_data, timestamp) ==
    [timestamp |-> timestamp,
     context |-> IF experience_data.context = "absent" THEN "{}"
                 ELSE experience_data.context,
     action_taken |-> IF experience_data.action_taken = "<absent>" THEN ""
                      ELSE experience_data.action_taken,
     outcome |-> Get(experience_data.outcome, EmptyOutcome),
     reward |-> Get(experience_data.reward, Num(Zero)),
     confidence |-> Get(experience_data.confidence, Num(<<1, 2>>))]

\* outcome.get('performance', 0.0) of a map-valued outcome.
PerformanceOf(experience) == Get(experience.outcome.performance, Num(Zero))

\* ------------------------------------------------------- learning engine
VARIABLES
    made,       \* _learning_core is not None
    core,       \* the EnhancedAutonomousLearningCore instance
    py_hash,    \* this process's hash() of the strings the agent hashes
    now,        \* the clock behind datetime.now()
    result,     \* what the last request returned to its caller
    steps,      \* the steps the last learn call completed, in order
    successes,  \* learn calls that returned a success summary so far
    inserted,   \* every record ever appended to the history, in order
    proposal,   \* what the last get_next_parameters call gave its caller
    agent_log,  \* the epsilon the RL agent was constructed with, and the
                \* number of RL updates it has completed since
    strength,   \* what the last direct get_policy_strength call returned
    request,    \* the action of the last request: "learn", "analytics",
                \* "other", or "none" before the first request
    calls,      \* learn calls in progress on the engine, when callers run
                \* them from several threads
    seed_config,    \* the config of the request that constructed the engine
    selection,      \* what the last direct select_action call did
    fed_gradients   \* the gradients of the last direct gradient update

vars == <<made, core, py_hash, now, result, steps, successes, inserted, proposal,
          agent_log, strength, request, calls, seed_config, selection,
          fed_gradients>>

\* EnhancedAutonomousLearningCore.__init__(config), given the value of
\* config.get('learning_rate').
EnhancedAutonomousLearningCore_init(config_learning_rate) ==
    [gradient_optimizer |->
        AdaptiveGradientDescent_init(
            RatOf(Get(config_learning_rate, Num(DefaultLearningRate)))),
     bayesian_optimizer |-> BayesianOptimizer_init,
     rl_agent |-> ReinforcementLearningAgent_init,
     learning_experiences |-> <<>>,
     performance_metrics |-> <<>>,
     current_optimizer |-> "gradient",
     learning_iteration |-> 0,
     last_performance |-> Zero]

\* What a request returns.  kind is "summary" (a success summary),
\* "failure" ({error, success: false}), "analytics", "raised" (an exception
\* reached the caller) or "none" (no request yet).
NoTrend == [mean |-> Zero, variance |-> Zero, min |-> Zero, max |-> Zero]
NoResult ==
    [kind |-> "none", error |-> "", learning_iteration |-> 0,
     performance_improvement |-> Zero, current_optimizer |-> "",
     confidence |-> AbsentVal, timestamp |-> 0, total_experiences |-> 0,
     epsilon |-> Zero, performance_trend |-> NoTrend,
     confidence_trend |-> [mean |-> Zero, variance |-> Zero]]
Failure(error) == [NoResult EXCEPT !.kind = "failure", !.error = error]
Raised(error) == [NoResult EXCEPT !.kind = "raised", !.error = error]

\* Variant: the metric list keeps its newest entry only.
update_performance_metrics_latestOnly(self, experience) ==
    [self EXCEPT !.performance_metrics =
        <<[value |-> PerformanceOf(experience),
           timestamp |-> experience.timestamp]>>]

\* _update_performance_metrics (lines 243-248), for a map-valued outcome.
update_performance_metrics(self, experience) ==
    [self EXCEPT !.performance_metrics =
        Append(@, [value |-> PerformanceOf(experience),
                   timestamp |-> experience.timestamp])]

\* Variant: the dispatch goes to the Bayesian strategy.
Dispatch_toBayesian(self, feedback) ==
    The({ [self |-> [self EXCEPT !.bayesian_optimizer = u.self],
           raised |-> u.raised]
          : u \in {BayesianOptimizer_update(self.bayesian_optimizer,
                                            "absent", feedback)} })

\* The strategy dispatch of _apply_learning_updates (lines 263-268).
Dispatch(self, feedback) ==
    IF self.current_optimizer = "gradient"
    THEN The({ [self |-> [self EXCEPT !.gradient_optimizer = u.self],
                raised |-> u.raised]
               : u \in {AdaptiveGradientDescent_update(self.gradient_optimizer,
                                                       feedback)} })
    ELSE IF self.current_optimizer = "bayesian"
    THEN The({ [self |-> [self EXCEPT !.bayesian_optimizer = u.self],
                raised |-> u.raised]
               : u \in {BayesianOptimizer_update(self.bayesian_optimizer,
                                                 "absent", feedback)} })
    ELSE [self |-> self, raised |-> FALSE]

\* Variant: the subtraction the other way round.
Improvement_reversed(self, current_performance) ==
    RSub(self.last_performance, current_performance)

\* Lines 270-272: the improvement against last_performance.
Improvement(self, current_performance) ==
    RSub(current_performance, self.last_performance)

\* _apply_learning_updates (lines 250-275), for a map-valued outcome:
\* context.get raises on a context that is not a map; the subtraction on
\* line 271 raises on a performance that is not a number.
apply_learning_updates(self, experience) ==
    IF experience.context = "notmap"
    THEN [self |-> self, raised |-> TRUE, performance_improvement |-> Zero]
    ELSE The({
        IF d.raised \/ ~IsNum(current_performance)
        THEN [self |-> d.self, raised |-> TRUE, performance_improvement |-> Zero]
        ELSE [self |-> [d.self EXCEPT !.last_performance = RatOf(current_performance)],
              raised |-> FALSE,
              performance_improvement |-> Improvement(self, RatOf(current_performance))]
        : current_performance \in {PerformanceOf(experience)},
          d \in {Dispatch(self,
                          [performance |-> PerformanceOf(experience),
                           gradients |-> Get(experience.outcome.gradients,
                                             GradMap(<<>>))])} })

\* Variant: the agent is updated twice with the same arguments.
update_rl_agent_twice(self, h, experience) ==
    IF experience.action_taken = "<list>"
    THEN [self |-> self, raised |-> TRUE]
    ELSE The({ The({ [self |-> [self EXCEPT !.rl_agent = u2.self], raised |-> u2.raised]
                     : u2 \in {update_q_value(
                                  u.self, h, experience.context,
                                  PyHash(h, experience.action_taken)
                                      % self.rl_agent.action_space_size,
                                  experience.reward,
                                  IF experience.outcome.next_state = "absent" THEN "{}"
                                  ELSE experience.outcome.next_state,
                                  experience.outcome.episode_done = "true")} })
               : u \in {update_q_value(
                           self.rl_agent, h, experience.context,
                           PyHash(h, experience.action_taken)
                               % self.rl_agent.action_space_size,
                           experience.reward,
                           IF experience.outcome.next_state = "absent" THEN "{}"
                           ELSE experience.outcome.next_state,
                           experience.outcome.episode_done = "true")} })

\* _update_rl_agent (lines 277-287): hash(action_taken) raises on an
\* unhashable value; every exception is caught here.
update_rl_agent(self, h, experience) ==
    IF experience.action_taken = "<list>"
    THEN [self |-> self, raised |-> TRUE]
    ELSE The({ [self |-> [self EXCEPT !.rl_agent = u.self], raised |-> u.raised]
               : u \in {update_q_value(
                           self.rl_agent, h, experience.context,
                           PyHash(h, experience.action_taken)
                               % self.rl_agent.action_space_size,
                           experience.reward,
                           IF experience.outcome.next_state = "absent" THEN "{}"
                           ELSE experience.outcome.next_state,
                           experience.outcome.episode_done = "true")} })

\* Variant: the increment is missing.
IncrementIteration_missing(self) == self

\* The increment on line 236.
IncrementIteration(self) == [self EXCEPT !.learning_iteration = @ + 1]

\* Variant: the summary reports the counter after the increment.
Summary_afterIncrement(self, experience, learning_result) ==
    [NoResult EXCEPT
        !.kind = "summary",
        !.learning_iteration = self.learning_iteration + 1,
        !.performance_improvement = learning_result.performance_improvement,
        !.current_optimizer = self.current_optimizer,
        !.confidence = experience.confidence,
        !.timestamp = experience.timestamp]

\* Lines 227-234: the success summary, built before the increment.
Summary(self, experience, learning_result) ==
    [NoResult EXCEPT
        !.kind = "summary",
        !.learning_iteration = self.learning_iteration,
        !.performance_improvement = learning_result.performance_improvement,
        !.current_optimizer = self.current_optimizer,
        !.confidence = experience.confidence,
        !.timestamp = experience.timestamp]

\* Variant: an exception of the RL update is not caught and fails the call.
FinishLearning_propagate(h, experience, learning_result) ==
    The({ IF rl.raised
          THEN [self |-> rl.self, result |-> Failure("Exception"),
                steps |-> <<"history", "metrics", "strategy">>]
          ELSE [self |-> IncrementIteration(rl.self),
                result |-> Summary(rl.self, experience, learning_result),
                steps |-> <<"history", "metrics", "strategy", "rl", "iteration">>]
          : rl \in {update_rl_agent(learning_result.self, h, experience)} })

\* Lines 225-237: the RL update, the summary and the increment.
FinishLearning(h, experience, learning_result) ==
    The({ [self |-> IncrementIteration(rl.self),
           result |-> Summary(rl.self, experience, learning_result),
           steps |-> IF rl.raised
                     THEN <<"history", "metrics", "strategy", "iteration">>
                     ELSE <<"history", "metrics", "strategy", "rl", "iteration">>]
          : rl \in {update_rl_agent(learning_result.self, h, experience)} })

\* Variant: the RL update runs first, before the metric and the strategy
\* step.
LearnFrom_rlFirst(self, h, experience) ==
    IF experience.outcome.t # "map"
    THEN [self |-> self, result |-> Failure("AttributeError"),
          steps |-> <<"history">>]
    ELSE The({
        IF learning_result.raised
        THEN [self |-> learning_result.self, result |-> Failure("Exception"),
              steps |-> <<"history", "metrics">>]
        ELSE [self |-> IncrementIteration(learning_result.self),
              result |-> Summary(learning_result.self, experience, learning_result),
              steps |-> <<"history", "metrics", "strategy", "rl", "iteration">>]
        : learning_result \in
            {apply_learning_updates(
                 update_performance_metrics(
                     update_rl_agent(self, h, experience).self, experience),
                 experience)} })

\* Variant: a failed strategy step rolls the metric append back.
LearnFrom_rollback(self, h, experience) ==
    IF experience.outcome.t # "map"
    THEN [self |-> self, result |-> Failure("AttributeError"),
          steps |-> <<"history">>]
    ELSE The({
        IF learning_result.raised
        THEN [self |-> self, result |-> Failure("Exception"),
              steps |-> <<"history", "metrics">>]
        ELSE FinishLearning(h, experience, learning_result)
        : learning_result \in
            {apply_learning_updates(update_performance_metrics(self, experience),
                                    experience)} })

\* Variant: the increment sits in a finally clause and also runs when the
\* strategy step raises.
LearnFrom_countsFailures(self, h, experience) ==
    IF experience.outcome.t # "map"
    THEN [self |-> self, result |-> Failure("AttributeError"),
          steps |-> <<"history">>]
    ELSE The({
        IF learning_result.raised
        THEN [self |-> IncrementIteration(learning_result.self),
              result |-> Failure("Exception"),
              steps |-> <<"history", "metrics">>]
        ELSE FinishLearning(h, experience, learning_result)
        : learning_result \in
            {apply_learning_updates(update_performance_metrics(self, experience),
                                    experience)} })

\* Lines 221-237, for a constructed experience.
LearnFrom(self, h, experience) ==
    IF experience.outcome.t # "map"
    THEN [self |-> self, result |-> Failure("AttributeError"),
          steps |-> <<"history">>]
    ELSE The({
        IF learning_result.raised
        THEN [self |-> learning_result.self, result |-> Failure("Exception"),
              steps |-> <<"history", "metrics">>]
        ELSE FinishLearning(h, experience, learning_result)
        : learning_result \in
            {apply_learning_updates(update_performance_metrics(self, experience),
                                    experience)} })

\* learn_from_experience (lines 209-241): the engine after the call, the
\* returned result and the steps the call completed.
learn_from_experience(self, h, experience_data, timestamp) ==
    IF experience_data.t # "map"
    THEN [self |-> self, result |-> Failure("AttributeError"), steps |-> <<>>]
    ELSE The({
        LearnFrom([self EXCEPT !.learning_experiences =
                      DequeAppend(@, experience, HistoryCapacity)],
                  h, experience)
        : experience \in {LearningExperience(experience_data, timestamp)} })

\* list(self.learning_experiences)[-100:]
Recent(q) == IF Len(q) <= RecentWindow THEN q
             ELSE SubSeq(q, Len(q) - RecentWindow + 1, Len(q))

\* get_learning_analytics (lines 289-313) has no handler of its own:
\* exp.outcome.get raises on an outcome that is not a map, and np.mean
\* raises on a performance or confidence value that is not a number.
AnalyticsRaises(self) ==
    \E i \in 1 .. Len(Recent(self.learning_experiences)) :
        LET exp == Recent(self.learning_experiences)[i]
        IN  \/ exp.outcome.t # "map"
            \/ ~IsNum(PerformanceOf(exp))
            \/ ~IsNum(exp.confidence)

\* np.mean, np.var (the population variance, whose square root np.std
\* returns), np.min and np.max of a non-empty sequence of numbers.
RECURSIVE SeqSum(_)
SeqSum(xs) == IF xs = <<>> THEN Zero ELSE RAdd(Head(xs), SeqSum(Tail(xs)))
RECURSIVE SeqMin(_)
SeqMin(xs) == IF Len(xs) = 1 THEN xs[1] ELSE RMin(Head(xs), SeqMin(Tail(xs)))
RECURSIVE SeqMax(_)
SeqMax(xs) == IF Len(xs) = 1 THEN xs[1] ELSE RMax(Head(xs), SeqMax(Tail(xs)))
SeqMean(xs) == RDiv(SeqSum(xs), <<Len(xs), 1>>)
SeqVariance(xs) ==
    The({ RDiv(SeqSum([i \in 1 .. Len(xs) |->
                          The({ RMul(dist, dist) : dist \in {RSub(xs[i], mean)} })]),
               <<Len(xs), 1>>)
          : mean \in {SeqMean(xs)} })

\* Variant: the statistics of the whole history.
Trend_wholeHistory(self, values) ==
    The({ IF xs = <<>> THEN NoTrend
          ELSE [mean |-> SeqMean(xs), variance |-> SeqVariance(xs),
                min |-> SeqMin(xs), max |-> SeqMax(xs)]
          : xs \in {[i \in 1 .. Len(self.learning_experiences) |->
                        RatOf(IF values = "performance"
                              THEN PerformanceOf(self.learning_experiences[i])
                              ELSE self.learning_experiences[i].confidence)]} })

\* Lines 290-305: the statistics of the performance or of the confidence
\* values of the recent records, 0.0 each when there is no record; variance
\* is the square of the reported 'std'.
Trend(self, values) ==
    The({ IF xs = <<>> THEN NoTrend
          ELSE [mean |-> SeqMean(xs), variance |-> SeqVariance(xs),
                min |-> SeqMin(xs), max |-> SeqMax(xs)]
          : xs \in {[i \in 1 .. Len(Recent(self.learning_experiences)) |->
                        RatOf(IF values = "performance"
                              THEN PerformanceOf(Recent(self.learning_experiences)[i])
                              ELSE Recent(self.learning_experiences)[i].confidence)]} })

get_learning_analytics(self) ==
    IF AnalyticsRaises(self)
    THEN Raised("Exception")
    ELSE [NoResult EXCEPT
            !.kind = "analytics",
            !.total_experiences = Len(self.learning_experiences),
            !.learning_iteration = self.learning_iteration,
            !.current_optimizer = self.current_optimizer,
            !.performance_trend = Trend(self, "performance"),
            \* lines 302-305: mean and std only
            !.confidence_trend =
                The({ [mean |-> trend.mean, variance |-> trend.variance]
                      : trend \in {Trend(self, "confidence")} }),
            !.epsilon = self.rl_agent.epsilon]

\* ---------------------------------------------------------- entry point
\* The learning rates a request's config may carry.
Configs == {AbsentVal, Num(One)}

\* Variant: every request constructs a new engine from its own config.
get_learning_core_rebuilding(config) == EnhancedAutonomousLearningCore_init(config)

\* get_learning_core(config) (lines 318-322): the first call constructs.
get_learning_core(config) ==
    IF made THEN core ELSE EnhancedAutonomousLearningCore_init(config)

\* The engine's rationals are small enough for one more learn call.
Representable(self) ==
    /\ Small(self.gradient_optimizer.learning_rate)
    /\ \A p \in ParamNames : Small(self.gradient_optimizer.velocity[p].v)
    /\ Small(self.rl_agent.epsilon)
    /\ \A s \in States : \A a \in Actions : Small(self.rl_agent.q_table[s][a])

\* Two callers, each of which may run one learn call on the engine.
Callers == {1, 2}
IdleCall ==
    [pc |-> "idle", experience |-> LearningExperience(EmptyExperience, 0),
     current_performance |-> Zero, performance_improvement |-> Zero,
     summary_iteration |-> 0, loaded_iteration |-> 0]
NoCalls == [serialized |-> TRUE, of |-> [c \in Callers |-> IdleCall]]

\* No select_action call was made yet.  A call records the state it was
\* given, the value np.random.random() returned and the action it returned.
NoSelection == [called |-> FALSE, state |-> "{}", draw |-> Zero, action |-> 0]

Init ==
    /\ made = FALSE
    /\ core = EnhancedAutonomousLearningCore_init(AbsentVal)
    /\ py_hash \in [HashedStrings -> 0 .. (HashSpan - 1)]
    /\ now = 0
    /\ result = NoResult
    /\ steps = <<>>
    /\ successes = 0
    /\ inserted = <<>>
    /\ proposal = NoProposal
    /\ seed_config = AbsentVal
    /\ selection = NoSelection
    /\ fed_gradients = GradAbsent
    /\ request = "none"
    /\ calls = NoCalls
    /\ strength = AbsentVal
    /\ agent_log = [initial_epsilon |-> InitialEpsilon, updates |-> 0]

\* process_learning_request with action 'learn' (the default action), while
\* fewer than max learn requests were made.
LearnUpTo(config, experience_data, max) ==
    /\ now < max
    /\ Representable(get_learning_core(config))
    /\ \E r \in {learn_from_experience(get_learning_core(config), py_hash,
                                        experience_data, now)} :
           /\ made' = TRUE
           /\ core' = r.self
           /\ result' = r.result
           /\ steps' = r.steps
           /\ successes' = IF r.result.kind = "summary" THEN successes + 1
                           ELSE successes
           /\ inserted' = IF Len(r.steps) > 0
                          THEN Append(inserted, LearningExperience(experience_data, now))
                          ELSE inserted
    /\ now' = now + 1
    /\ agent_log' = IF \E i \in 1 .. Len(steps') : steps'[i] = "rl"
                    THEN [agent_log EXCEPT !.updates = @ + 1]
                    ELSE agent_log
    /\ request' = "learn"
    /\ seed_config' = IF made THEN seed_config ELSE config
    /\ UNCHANGED <<py_hash, proposal, strength,
                   calls,
                   selection, fed_gradients>>

Learn(config, experience_data) == LearnUpTo(config, experience_data, MaxCalls)

\* Variant: an analytics request counts as a learning iteration.
Analytics_counting(config) ==
    /\ made' = TRUE
    /\ core' = [get_learning_core(config) EXCEPT !.learning_iteration = @ + 1]
    /\ result' = get_learning_analytics(get_learning_core(config))
    /\ request' = "analytics"
    /\ seed_config' = IF made THEN seed_config ELSE config
    /\ UNCHANGED <<py_hash, now, steps, successes, inserted, proposal, agent_log,
                   strength,
                   calls,
                   selection, fed_gradients>>

\* process_learning_request with action 'analytics'.
Analytics(config) ==
    /\ made' = TRUE
    /\ core' = get_learning_core(config)
    /\ result' = get_learning_analytics(get_learning_core(config))
    /\ request' = "analytics"
    /\ seed_config' = IF made THEN seed_config ELSE config
    /\ UNCHANGED <<py_hash, now, steps, successes, inserted, proposal, agent_log,
                   strength,
                   calls,
                   selection, fed_gradients>>

\* Variant: an unknown action clears the history.
UnknownAction_clearing(config) ==
    /\ made' = TRUE
    /\ core' = [get_learning_core(config) EXCEPT !.learning_experiences = <<>>]
    /\ result' = Failure("Unknown action")
    /\ request' = "other"
    /\ seed_config' = IF made THEN seed_config ELSE config
    /\ UNCHANGED <<py_hash, now, steps, successes, inserted, proposal, agent_log,
                   strength,
                   calls,
                   selection, fed_gradients>>

\* process_learning_request with any other action.
UnknownAction(config) ==
    /\ made' = TRUE
    /\ core' = get_learning_core(config)
    /\ result' = Failure("Unknown action")
    /\ request' = "other"
    /\ seed_config' = IF made THEN seed_config ELSE config
    /\ UNCHANGED <<py_hash, now, steps, successes, inserted, proposal, agent_log,
                   strength,
                   calls,
                   selection, fed_gradients>>

Next ==
    \/ \E config \in Configs : \E e \in Experiences : Learn(config, e)
    \/ \E config \in Configs : Analytics(config)
    \/ \E config \in Configs : UnknownAction(config)

\* The engine under every sequence of requests.
Spec == Init /\ [][Next]_vars

\* ------------------------------------------- longer runs of learn requests
\* Experiences that leave the agent's epsilon and the strategy's rate as
\* they are or fail early, so that runs longer than the history's capacity
\* stay representable.
DeepExperiences ==
    { Buy(<<4, 5>>, <<1, 1>>),
      ExperienceNotMap,
      ExperienceData("{}", "buy", OutcomeNotMap, Num(One), AbsentVal),
      ExperienceData("{}", "buy",
                     Outcome(Num(<<1, 2>>), GradAbsent, "notmap", "false"),
                     Num(One), AbsentVal) }

LearnDeep(experience_data) == LearnUpTo(AbsentVal, experience_data, MaxDeepCalls)

NextDeep == \E e \in DeepExperiences : LearnDeep(e)

SpecDeep == Init /\ [][NextDeep]_vars

\* ------------------------------------- analytics over a history that wraps
\* Experiences whose records the analytics can read, with different
\* performance and confidence values; the third one fails in the strategy
\* step, after its record was appended.
AnalyticsExperiences ==
    { EmptyExperience,
      Buy(<<4, 5>>, <<1, 1>>),
      ExperienceData("notmap", "buy",
                     Outcome(Num(<<9, 10>>), GradAbsent, "absent", "absent"),
                     Num(One), AbsentVal),
      ExperienceData("{}", "buy",
                     Outcome(Num(<<3, 10>>), GradAbsent, "{}", "true"),
                     Num(One), Num(<<9, 10>>)) }

NextAnalytics ==
    \/ \E e \in AnalyticsExperiences : LearnDeep(e)
    \/ Analytics(AbsentVal)

SpecAnalytics == Init /\ [][NextAnalytics]_vars

\* ------------------------------------------- the strategies on their own
\* The feedback a direct caller of AdaptiveGradientDescent.update passes.
GradientPerformances ==
    { Num(Rat(k, 10)) : k \in 0 .. 9 } \cup {StrVal, AbsentVal}

InitStrategies ==
    /\ made = TRUE
    /\ \E config \in Configs :
           /\ core = EnhancedAutonomousLearningCore_init(config)
           /\ seed_config = config
    /\ py_hash = [x \in HashedStrings |-> 0]
    /\ now = 0
    /\ result = NoResult
    /\ steps = <<>>
    /\ successes = 0
    /\ inserted = <<>>
    /\ proposal = NoProposal
    /\ selection = NoSelection
    /\ fed_gradients = GradAbsent
    /\ request = "none"
    /\ calls = NoCalls
    /\ strength = AbsentVal
    /\ agent_log = [initial_epsilon |-> InitialEpsilon, updates |-> 0]

\* gradient_optimizer.update(current_state, feedback), called directly.
GradientUpdate(feedback) ==
    /\ Representable(core)
    /\ \E u \in {AdaptiveGradientDescent_update(core.gradient_optimizer, feedback)} :
           core' = [core EXCEPT !.gradient_optimizer = u.self]
    /\ fed_gradients' = feedback.gradients
    /\ UNCHANGED <<made, py_hash, now, result, steps, successes, inserted, proposal,
                   agent_log, strength, request,
                   calls,
                   seed_config, selection>>

\* The feedback carries no gradients here: the velocity map does not feed
\* back into the learning rate.
NextGradient ==
    \E performance \in GradientPerformances :
        GradientUpdate([performance |-> performance, gradients |-> GradAbsent])

SpecGradient == InitStrategies /\ [][NextGradient]_vars

\* The feedback of the runs that follow the velocity map: two performances
\* and gradient maps over the parameter names, explored while the learning
\* rate and the velocities stay small.
VelocityPerformances == {Num(<<1, 2>>), Num(<<3, 5>>)}
VelocityGradients ==
    { GradAbsent,
      GradMap(<<>>),
      GradMap(<<[name |-> "w", value |-> Num(One)]>>),
      GradMap(<<[name |-> "b", value |-> Num(<<-2, 1>>)]>>),
      GradMap(<<[name |-> "w", value |-> Num(<<-1, 1>>)],
                [name |-> "b", value |-> Num(<<1, 2>>)]>>) }
VelocitySmall(self) ==
    /\ Abs(self.learning_rate[1]) <= MaxVelocityMagnitude
    /\ self.learning_rate[2] <= MaxVelocityMagnitude
    /\ \A p \in ParamNames :
           /\ Abs(self.velocity[p].v[1]) <= MaxVelocityMagnitude
           /\ self.velocity[p].v[2] <= MaxVelocityMagnitude

NextVelocities ==
    \E performance \in VelocityPerformances : \E gradients \in VelocityGradients :
        /\ VelocitySmall(core.gradient_optimizer)
        /\ GradientUpdate([performance |-> performance, gradients |-> gradients])

SpecVelocity == InitStrategies /\ [][NextVelocities]_vars

\* The performances a direct caller of BayesianOptimizer.update passes.
BayesPerformances ==
    {AbsentVal, Num(<<-1, 2>>), Num(<<1, 2>>), Num(<<4, 5>>)}

\* bayesian_optimizer.update(current_state, feedback), called directly.
BayesUpdate(parameters, feedback) ==
    /\ Len(core.bayesian_optimizer.observations) < MaxObservations
    /\ \E u \in {BayesianOptimizer_update(core.bayesian_optimizer, parameters, feedback)} :
           core' = [core EXCEPT !.bayesian_optimizer = u.self]
    /\ UNCHANGED <<made, py_hash, now, result, steps, successes, inserted, proposal,
                   agent_log, strength, request,
                   calls,
                   seed_config, selection, fed_gradients>>

NextBayes ==
    \E parameters \in ParameterMaps : \E performance \in BayesPerformances :
        BayesUpdate(parameters, [performance |-> performance, gradients |-> GradAbsent])

SpecBayes == InitStrategies /\ [][NextBayes]_vars

\* The performances of the runs that ask the strategy for parameters.
ProposePerformances == {Num(<<1, 2>>), Num(<<4, 5>>)}

\* bayesian_optimizer.get_next_parameters(), called directly.
Propose(u, z) ==
    /\ proposal' = get_next_parameters(core.bayesian_optimizer, u, z)
    /\ UNCHANGED <<made, core, py_hash, now, result, steps, successes, inserted,
                   agent_log, strength, request,
                   calls,
                   seed_config, selection, fed_gradients>>

NextPropose ==
    \/ \E parameters \in ParameterMaps : \E performance \in ProposePerformances :
           /\ Len(core.bayesian_optimizer.observations) < MaxProposeObservations
           /\ BayesUpdate(parameters, [performance |-> performance, gradients |-> GradAbsent])
    \/ \E u \in UniformDrawsOf(core.bayesian_optimizer) :
           \E z \in NormalDrawsOf(core.bayesian_optimizer) : Propose(u, z)

SpecPropose == InitStrategies /\ [][NextPropose]_vars

\* --------------------------------------------------- the RL agent on its own
\* ReinforcementLearningAgent(epsilon=e): the other arguments at their
\* defaults.
ReinforcementLearningAgent_new(epsilon) ==
    [ReinforcementLearningAgent_init EXCEPT !.epsilon = epsilon]

\* The epsilons an agent is constructed with: 0, below the floor, the
\* floor, one decay step above the floor, the default, 1.
InitialEpsilons ==
    {Zero, <<1, 200>>, EpsilonFloor, <<2, 199>>, InitialEpsilon, One}

\* The rewards a direct caller of update_q_value passes.
AgentRewards == {Num(One), Num(<<-1, 1>>)}

InitAgent ==
    /\ made = TRUE
    /\ \E e \in InitialEpsilons :
           /\ core = [EnhancedAutonomousLearningCore_init(AbsentVal)
                          EXCEPT !.rl_agent = ReinforcementLearningAgent_new(e)]
           /\ agent_log = [initial_epsilon |-> e, updates |-> 0]
    /\ py_hash = [x \in HashedStrings |-> 0]
    /\ now = 0
    /\ result = NoResult
    /\ steps = <<>>
    /\ successes = 0
    /\ inserted = <<>>
    /\ proposal = NoProposal
    /\ seed_config = AbsentVal
    /\ selection = NoSelection
    /\ fed_gradients = GradAbsent
    /\ request = "none"
    /\ calls = NoCalls
    /\ strength = AbsentVal

\* rl_agent.update_q_value(state, action, reward, next_state, done), called
\* directly.
AgentUpdate(state, action, reward, next_state, done) ==
    /\ agent_log.updates < MaxAgentUpdates
    /\ Representable(core)
    /\ \E u \in {update_q_value(core.rl_agent, py_hash, state, action, reward,
                                  next_state, done)} :
           /\ core' = [core EXCEPT !.rl_agent = u.self]
           /\ agent_log' = IF u.raised THEN agent_log
                           ELSE [agent_log EXCEPT !.updates = @ + 1]
    /\ UNCHANGED <<made, py_hash, now, result, steps, successes, inserted, proposal,
                   strength, request,
                   calls,
                   seed_config, selection, fed_gradients>>

NextAgent ==
    \E action \in Actions : \E reward \in AgentRewards : \E done \in BOOLEAN :
        AgentUpdate("{}", action, reward, "{}", done)

SpecAgent == InitAgent /\ [][NextAgent]_vars

\* np.random.random() returns a float in [0, 1): 0, values on both sides of
\* the epsilons above, and a value close to 1.
RandomDraws ==
    {Zero, <<1, 200>>, EpsilonFloor, <<1, 20>>, InitialEpsilon, <<99, 100>>}

\* rl_agent.select_action(state), called directly.
Select(state, random, randint) ==
    /\ \E r \in {select_action(core.rl_agent, py_hash, state, random, randint)} :
           /\ ~r.raised
           /\ selection' = [called |-> TRUE, state |-> state, draw |-> random,
                            action |-> r.action]
    /\ UNCHANGED <<made, core, py_hash, now, result, steps, successes, inserted,
                   proposal, agent_log, strength, request, calls, seed_config,
                   fed_gradients>>

NextSelect ==
    \/ NextAgent
    \/ \E random \in RandomDraws : \E randint \in Actions :
           Select("{}", random, randint)

SpecSelect == InitAgent /\ [][NextSelect]_vars

\* ------------------------------------------------------ the policy strength
\* The states and rewards of the runs that measure the policy strength: two
\* contexts whose hashes fall into different rows of the table.
TableContexts == {"{}", "{market: up}"}
TableRewards == {Num(<<-2, 1>>), Num(<<-1, 1>>), Num(<<60, 1>>)}
TableSmall(self) ==
    \A s \in States : \A a \in Actions :
        /\ Abs(self.q_table[s][a][1]) <= MaxTableMagnitude
        /\ self.q_table[s][a][2] <= MaxTableMagnitude

\* An agent constructed with epsilon = 0.01, measured once.
InitTable ==
    /\ made = TRUE
    /\ core = [EnhancedAutonomousLearningCore_init(AbsentVal)
                   EXCEPT !.rl_agent = ReinforcementLearningAgent_new(EpsilonFloor)]
    /\ agent_log = [initial_epsilon |-> EpsilonFloor, updates |-> 0]
    /\ py_hash = [x \in HashedStrings \cup TableContexts |->
                     IF x = "{market: up}" THEN 1 ELSE 0]
    /\ now = 0
    /\ result = NoResult
    /\ steps = <<>>
    /\ successes = 0
    /\ inserted = <<>>
    /\ proposal = NoProposal
    /\ seed_config = AbsentVal
    /\ selection = NoSelection
    /\ fed_gradients = GradAbsent
    /\ request = "none"
    /\ calls = NoCalls
    /\ strength = Num(get_policy_strength(core.rl_agent))

\* rl_agent.update_q_value(...) followed by rl_agent.get_policy_strength(),
\* the order of lines 225 and 231; explored while the table's entries stay
\* small.
UpdateAndMeasure(state, action, reward, next_state, done) ==
    /\ agent_log.updates < MaxTableUpdates
    /\ \E u \in {update_q_value(core.rl_agent, py_hash, state, action, reward,
                                  next_state, done)} :
           /\ ~u.raised
           /\ TableSmall(u.self)
           /\ core' = [core EXCEPT !.rl_agent = u.self]
           /\ strength' = Num(get_policy_strength(u.self))
    /\ agent_log' = [agent_log EXCEPT !.updates = @ + 1]
    /\ UNCHANGED <<made, py_hash, now, result, steps, successes, inserted, proposal,
                   request,
                   calls,
                   seed_config, selection, fed_gradients>>

NextTable ==
    \E state \in TableContexts : \E action \in Actions :
        \E reward \in TableRewards : \E done \in BOOLEAN :
            UpdateAndMeasure(state, action, reward, state, done)

SpecTable == InitTable /\ [][NextTable]_vars

\* ------------------------------------- learn calls whose RL update raises
\* Experiences with one performance, so that the strategy's rate stays as it
\* is: one whose RL update completes, and three whose RL update raises, on
\* the next state (not a map), on the reward (a string) and on the action
\* (unhashable).
RaisingExperiences ==
    { Buy(<<4, 5>>, <<1, 1>>),
      ExperienceData("{}", "buy",
                     Outcome(Num(<<4, 5>>), GradAbsent, "notmap", "false"),
                     Num(One), AbsentVal),
      ExperienceData("{}", "buy",
                     Outcome(Num(<<4, 5>>), GradAbsent, "{}", "true"),
                     StrVal, AbsentVal),
      ExperienceData("{}", "<list>",
                     Outcome(Num(<<4, 5>>), GradAbsent, "absent", "absent"),
                     Num(One), AbsentVal) }

NextRaising == \E e \in RaisingExperiences : LearnDeep(e)

SpecRaising == Init /\ [][NextRaising]_vars

\* ------------------------------------------------- select, then update
\* The agent's usual loop: select_action(state), then update_q_value for the
\* state and the action of that selection.  The draws make the selection
\* explore (0 < epsilon) or follow the table (0.99 >= epsilon).
EpisodeDraws == {Zero, <<99, 100>>}

UpdateSelected(reward, next_state, done) ==
    /\ selection.called
    /\ AgentUpdate(selection.state, selection.action, reward, next_state, done)

NextEpisode ==
    \/ \E state \in TableContexts : \E random \in EpisodeDraws :
           \E randint \in Actions : Select(state, random, randint)
    \/ \E reward \in AgentRewards : \E next_state \in TableContexts :
           \E done \in BOOLEAN : UpdateSelected(reward, next_state, done)

SpecEpisode == InitTable /\ [][NextEpisode]_vars

\* ------------------------------------------------ two callers on one engine
\* learn_from_experience holds no lock.  Two callers run one learn call each
\* on the same engine; a thread switch may fall between any two of the call's
\* statements, and between the load and the store of the "+= 1" on line 236.
\* With calls.serialized the callers hold a mutex around the whole call.
ExperienceOf ==
    [c \in Callers |-> IF c = 1 THEN Buy(<<4, 5>>, <<1, 1>>)
                       ELSE Buy(<<3, 5>>, <<-1, 2>>)]

InitThreads ==
    /\ made = TRUE
    /\ core = EnhancedAutonomousLearningCore_init(AbsentVal)
    /\ py_hash \in [HashedStrings -> 0 .. (HashSpan - 1)]
    /\ now = 0
    /\ result = NoResult
    /\ steps = <<>>
    /\ successes = 0
    /\ inserted = <<>>
    /\ proposal = NoProposal
    /\ seed_config = AbsentVal
    /\ selection = NoSelection
    /\ fed_gradients = GradAbsent
    /\ request = "none"
    /\ calls \in { [NoCalls EXCEPT !.serialized = b] : b \in BOOLEAN }
    /\ strength = AbsentVal
    /\ agent_log = [initial_epsilon |-> InitialEpsilon, updates |-> 0]

InProgress(c) == calls.of[c].pc \notin {"idle", "done"}

\* A caller that serializes access enters only while no other call is in
\* progress.
MayEnter(c) == calls.serialized => \A d \in Callers \ {c} : ~InProgress(d)

\* Variant: the assignment of line 272 is missing.
StoreLastPerformance_missing(self, current_performance) == self

\* Line 272: self.last_performance = current_performance.
StoreLastPerformance(self, current_performance) ==
    [self EXCEPT !.last_performance = current_performance]

\* Lines 212-219: the call builds its experience record and takes its
\* timestamp.
Enter(c) ==
    /\ calls.of[c].pc = "idle"
    /\ MayEnter(c)
    /\ calls' = [calls EXCEPT !.of[c] =
                    [@ EXCEPT !.pc = "history",
                              !.experience =
                                  LearningExperience(ExperienceOf[c], now)]]
    /\ now' = now + 1
    /\ request' = "learn"
    /\ UNCHANGED <<made, core, py_hash, result, steps, successes, inserted,
                   proposal, agent_log, strength,
                   seed_config, selection, fed_gradients>>

\* Line 221: the history append.
AppendHistory(c) ==
    /\ calls.of[c].pc = "history"
    /\ core' = [core EXCEPT !.learning_experiences =
                   DequeAppend(@, calls.of[c].experience, HistoryCapacity)]
    /\ inserted' = Append(inserted, calls.of[c].experience)
    /\ calls' = [calls EXCEPT !.of[c].pc = "metrics"]
    /\ UNCHANGED <<made, py_hash, now, result, steps, successes, proposal,
                   agent_log, strength, request,
                   seed_config, selection, fed_gradients>>

\* Line 223: the metric append.
UpdateMetrics(c) ==
    /\ calls.of[c].pc = "metrics"
    /\ core' = update_performance_metrics(core, calls.of[c].experience)
    /\ calls' = [calls EXCEPT !.of[c].pc = "strategy"]
    /\ UNCHANGED <<made, py_hash, now, result, steps, successes, inserted,
                   proposal, agent_log, strength, request,
                   seed_config, selection, fed_gradients>>

\* Lines 252-268: current_performance is read from the experience and the
\* current strategy is updated.
UpdateStrategy(c) ==
    /\ calls.of[c].pc = "strategy"
    /\ IsNum(PerformanceOf(calls.of[c].experience))
    /\ \E d \in {Dispatch(core,
                          [performance |-> PerformanceOf(calls.of[c].experience),
                           gradients |-> Get(calls.of[c].experience.outcome.gradients,
                                             GradMap(<<>>))])} :
           /\ ~d.raised
           /\ core' = d.self
    /\ calls' = [calls EXCEPT !.of[c] =
                    [@ EXCEPT !.pc = "read",
                              !.current_performance =
                                  RatOf(PerformanceOf(calls.of[c].experience))]]
    /\ UNCHANGED <<made, py_hash, now, result, steps, successes, inserted,
                   proposal, agent_log, strength, request,
                   seed_config, selection, fed_gradients>>

\* Line 271: last_performance is read and the improvement computed.
ReadLastPerformance(c) ==
    /\ calls.of[c].pc = "read"
    /\ calls' = [calls EXCEPT !.of[c] =
                    [@ EXCEPT !.pc = "write",
                              !.performance_improvement =
                                  Improvement(core, calls.of[c].current_performance)]]
    /\ UNCHANGED <<made, core, py_hash, now, result, steps, successes, inserted,
                   proposal, agent_log, strength, request,
                   seed_config, selection, fed_gradients>>

\* Line 272: last_performance is written.
WriteLastPerformance(c) ==
    /\ calls.of[c].pc = "write"
    /\ core' = StoreLastPerformance(core, calls.of[c].current_performance)
    /\ calls' = [calls EXCEPT !.of[c].pc = "rl"]
    /\ UNCHANGED <<made, py_hash, now, result, steps, successes, inserted,
                   proposal, agent_log, strength, request,
                   seed_config, selection, fed_gradients>>

\* Line 225: the RL update.
UpdateAgent(c) ==
    /\ calls.of[c].pc = "rl"
    /\ \E u \in {update_rl_agent(core, py_hash, calls.of[c].experience)} :
           /\ core' = u.self
           /\ agent_log' = IF u.raised THEN agent_log
                           ELSE [agent_log EXCEPT !.updates = @ + 1]
    /\ calls' = [calls EXCEPT !.of[c].pc = "summary"]
    /\ UNCHANGED <<made, py_hash, now, result, steps, successes, inserted,
                   proposal, strength, request,
                   seed_config, selection, fed_gradients>>

\* Lines 227-234: the summary reads learning_iteration.
BuildSummary(c) ==
    /\ calls.of[c].pc = "summary"
    /\ result' = Summary(core, calls.of[c].experience,
                         [performance_improvement |->
                              calls.of[c].performance_improvement])
    /\ calls' = [calls EXCEPT !.of[c] =
                    [@ EXCEPT !.pc = "load",
                              !.summary_iteration = core.learning_iteration]]
    /\ UNCHANGED <<made, core, py_hash, now, steps, successes, inserted,
                   proposal, agent_log, strength, request,
                   seed_config, selection, fed_gradients>>

\* Line 236, first half: learning_iteration is loaded.
LoadIteration(c) ==
    /\ calls.of[c].pc = "load"
    /\ calls' = [calls EXCEPT !.of[c] =
                    [@ EXCEPT !.pc = "store",
                              !.loaded_iteration = core.learning_iteration]]
    /\ UNCHANGED <<made, core, py_hash, now, result, steps, successes, inserted,
                   proposal, agent_log, strength, request,
                   seed_config, selection, fed_gradients>>

\* Line 236, second half: the loaded value plus one is stored; line 237
\* returns the summary.
StoreIteration(c) ==
    /\ calls.of[c].pc = "store"
    /\ core' = [core EXCEPT !.learning_iteration = calls.of[c].loaded_iteration + 1]
    /\ successes' = successes + 1
    /\ calls' = [calls EXCEPT !.of[c].pc = "done"]
    /\ UNCHANGED <<made, py_hash, now, result, steps, inserted, proposal,
                   agent_log, strength, request,
                   seed_config, selection, fed_gradients>>

NextThreads ==
    \E c \in Callers :
        \/ Enter(c)
        \/ AppendHistory(c)
        \/ UpdateMetrics(c)
        \/ UpdateStrategy(c)
        \/ ReadLastPerformance(c)
        \/ WriteLastPerformance(c)
        \/ UpdateAgent(c)
        \/ BuildSummary(c)
        \/ LoadIteration(c)
        \/ StoreIteration(c)

SpecThreads == InitThreads /\ [][NextThreads]_vars

\* ------------------------------------------------------------ properties
Last(q) == q[Len(q)]
Completed(s, step) == \E i \in 1 .. Len(s) : s[i] = step

\* A step that serves a learn request.
LearnStep == now' = now + 1

\* The experience record the learn request of this step constructed.
ThisExperience == Last(inserted')

\* C1: every learn call that returns a success summary raises
\* learning_iteration by exactly 1 and every learn call that returns a
\* failure result leaves it unchanged; learning_iteration never decreases
\* and always equals the number of successful calls so far.
C1_IterationCountsSuccesses ==
    /\ [](core.learning_iteration = successes)
    /\ [][LearnStep =>
            /\ result'.kind \in {"summary", "failure"}
            /\ result'.kind = "summary" =>
                   core'.learning_iteration = core.learning_iteration + 1
            /\ result'.kind = "failure" =>
                   core'.learning_iteration = core.learning_iteration]_vars
    /\ [][core'.learning_iteration >= core.learning_iteration]_vars

\* Two successful calls, then a failed one.
C1_Witness ==
    /\ now = 3
    /\ successes = 2
    /\ result.kind = "failure"
    /\ result.error # "Unknown action"

\* C2: a learn call in which the construction of the experience, the metric
\* step or the strategy step raises returns {error, success: false}, leaves
\* learning_iteration unchanged, and keeps what it had already written: the
\* record appended to the history and, if the metric step was reached, the
\* entry appended to performance_metrics['overall'].
C2_FailureKeepsPartialWrites ==
    [][(LearnStep /\ result'.kind = "failure") =>
         /\ result'.error # ""
         /\ core'.learning_iteration = core.learning_iteration
         /\ steps' \in {<<>>, <<"history">>, <<"history", "metrics">>}
         /\ IF Completed(steps', "history")
            THEN /\ Len(inserted') = Len(inserted) + 1
                 /\ ThisExperience.timestamp = now
                 /\ Last(core'.learning_experiences) = ThisExperience
            ELSE /\ inserted' = inserted
                 /\ core'.learning_experiences = core.learning_experiences
         /\ IF Completed(steps', "metrics")
            THEN core'.performance_metrics =
                     Append(core.performance_metrics,
                            [value |-> PerformanceOf(ThisExperience),
                             timestamp |-> now])
            ELSE core'.performance_metrics = core.performance_metrics]_vars

\* A call failed in its strategy step after an earlier call succeeded: the
\* metrics hold one entry more than there are successes.
C2_Witness ==
    /\ result.kind = "failure"
    /\ steps = <<"history", "metrics">>
    /\ core.learning_iteration = 1
    /\ Len(core.performance_metrics) = 2
    /\ Last(core.learning_experiences).timestamp = 1

\* The RL update of this experience raises: an unhashable action_taken, a
\* next_state that is not a map or a reward that is not a number.
RLUpdateRaises(experience) ==
    \/ experience.action_taken = "<list>"
    \/ experience.outcome.next_state = "notmap"
    \/ ~IsNum(experience.reward)

\* C3: when the RL update raises inside a learn call that reached it, the
\* call still returns a success summary, its strategy update and its
\* last_performance update are applied, learning_iteration is incremented,
\* and the agent is left as it was.
C3_RLFailureIsIsolated ==
    [][(LearnStep /\ Completed(steps', "strategy")
                  /\ RLUpdateRaises(ThisExperience)) =>
         /\ result'.kind = "summary"
         /\ ~Completed(steps', "rl")
         /\ core'.learning_iteration = core.learning_iteration + 1
         /\ core'.last_performance = RatOf(PerformanceOf(ThisExperience))
         /\ Last(core'.gradient_optimizer.performance_history) =
                PerformanceOf(ThisExperience)
         /\ core'.rl_agent = core.rl_agent]_vars

\* A call whose RL update raised returned a summary, after a call whose RL
\* update completed.
C3_Witness ==
    /\ result.kind = "summary"
    /\ steps = <<"history", "metrics", "strategy", "iteration">>
    /\ RLUpdateRaises(Last(core.learning_experiences))
    /\ core.learning_iteration = 2
    /\ core.rl_agent.epsilon # InitialEpsilon

\* C4: every public operation (learn, analytics, unknown action) returns a
\* structured success or failure result; no request ends with an exception
\* reaching the caller, whatever malformed experiences came before.
C4_NoRequestRaises == result.kind # "raised"

AllSteps == <<"history", "metrics", "strategy", "rl", "iteration">>

\* C5, as stated: learning_iteration is incremented only in a call in which
\* the history append, the metric update, the strategy update and the RL
\* update all succeeded.
C5_IncrementOnlyAfterAllSteps ==
    [][core'.learning_iteration # core.learning_iteration => steps' = AllSteps]_vars

\* C5, amended: learning_iteration is incremented, by exactly 1, only in a
\* call in which the history append, the metric update and the strategy
\* update succeeded, and in every such call; a failure of the RL update is
\* caught inside that step and does not prevent the increment.
C5_IncrementAfterStrategySteps ==
    /\ [][core'.learning_iteration # core.learning_iteration =>
            /\ LearnStep
            /\ core'.learning_iteration = core.learning_iteration + 1
            /\ Completed(steps', "history")
            /\ Completed(steps', "metrics")
            /\ Completed(steps', "strategy")
            /\ Last(core'.learning_experiences) = ThisExperience
            /\ Last(core'.performance_metrics).timestamp = now
            /\ core'.last_performance = RatOf(PerformanceOf(ThisExperience))]_vars
    /\ [][(LearnStep /\ Completed(steps', "strategy")) =>
            core'.learning_iteration = core.learning_iteration + 1]_vars

\* Every counted call so far had a failing RL update: the counter moved and
\* the agent is still as constructed.
C5_Witness ==
    /\ core.learning_iteration = 2
    /\ ~Completed(steps, "rl")
    /\ Completed(steps, "iteration")
    /\ core.rl_agent = ReinforcementLearningAgent_init

BuyHigh == Buy(<<4, 5>>, <<1, 1>>)
BuyLow == Buy(<<3, 5>>, <<-1, 2>>)

\* C6: a successful learn call returns performance_improvement =
\* outcome.performance - last_performance and then sets last_performance to
\* its outcome.performance; last_performance is 0 on a fresh engine and is
\* changed by nothing else (not by a failed call, not by another request),
\* so it is the performance of the most recent successful call.  On a fresh
\* engine, performances 0.8 then 0.6 give a second improvement of -0.2 and
\* learning_iteration = 2.
C6_ImprovementAgainstLastSuccess ==
    /\ [](successes = 0 => core.last_performance = Zero)
    /\ [][IF LearnStep /\ result'.kind = "summary"
          THEN /\ result'.performance_improvement =
                      RSub(RatOf(PerformanceOf(ThisExperience)), core.last_performance)
               /\ core'.last_performance = RatOf(PerformanceOf(ThisExperience))
          ELSE core'.last_performance = core.last_performance]_vars
    /\ []((/\ now = 2
           /\ inserted = <<LearningExperience(BuyHigh, 0), LearningExperience(BuyLow, 1)>>
           /\ result.kind = "summary")
          => /\ result.performance_improvement = <<-1, 5>>
             /\ core.learning_iteration = 2)

\* The scenario's second call has returned.
C6_Witness ==
    /\ now = 2
    /\ inserted = <<LearningExperience(BuyHigh, 0), LearningExperience(BuyLow, 1)>>
    /\ result.kind = "summary"
    /\ result.performance_improvement = <<-1, 5>>

\* The last n elements of q.
LastN(q, n) == IF Len(q) <= n THEN q ELSE SubSeq(q, Len(q) - n + 1, Len(q))

\* C7: the history never holds more than its capacity C; past capacity
\* each insertion evicts the oldest record, so after C+k insertions exactly
\* C records remain: the C most recent ones, in insertion order.
C7_HistoryKeepsMostRecent ==
    /\ Len(core.learning_experiences) <= HistoryCapacity
    /\ core.learning_experiences = LastN(inserted, HistoryCapacity)

\* C + 2 records were inserted.
C7_Witness ==
    /\ Len(inserted) = HistoryCapacity + 2
    /\ Len(core.learning_experiences) = HistoryCapacity
    /\ core.learning_experiences[1].timestamp > 1

Cap(optimizer) == RMul(optimizer.base_learning_rate, Two)

IncreasingUpdate ==
    /\ core'.gradient_optimizer # core.gradient_optimizer
    /\ core.gradient_optimizer.performance_history # <<>>
    /\ Greater(Last(core'.gradient_optimizer.performance_history),
               Last(core.gradient_optimizer.performance_history))

ScoreLeq(a, b) == a.t = "-inf" \/ (b.t # "-inf" /\ RLeq(RatOf(a), RatOf(b)))

\* The first position at which the best score was observed.
FirstBest(optimizer) ==
    CHOOSE i \in 1 .. Len(optimizer.observations) :
        /\ optimizer.observations[i] = optimizer.best_score
        /\ \A j \in 1 .. (i - 1) : optimizer.observations[j] # optimizer.best_score

\* C10: over Bayesian strategy updates best_score never decreases; an
\* update changes best_score and best_params only when its performance is
\* strictly greater than best_score (an equal one leaves both alone); and
\* after each update best_score is the maximum of all observed performances.
C10_BestScoreIsRunningMaximum ==
    /\ [](IF core.bayesian_optimizer.observations = <<>>
          THEN core.bayesian_optimizer = BayesianOptimizer_init
          ELSE /\ \E i \in 1 .. Len(core.bayesian_optimizer.observations) :
                      core.bayesian_optimizer.observations[i] = core.bayesian_optimizer.best_score
               /\ \A i \in 1 .. Len(core.bayesian_optimizer.observations) :
                      ScoreLeq(core.bayesian_optimizer.observations[i],
                               core.bayesian_optimizer.best_score)
               /\ core.bayesian_optimizer.best_params =
                      core.bayesian_optimizer.parameter_history[FirstBest(core.bayesian_optimizer)])
    /\ [][ScoreLeq(core.bayesian_optimizer.best_score,
                   core'.bayesian_optimizer.best_score)]_vars
    /\ [][IF /\ ScoreLeq(core.bayesian_optimizer.best_score,
                         Last(core'.bayesian_optimizer.observations))
             /\ core.bayesian_optimizer.best_score #
                    Last(core'.bayesian_optimizer.observations)
          THEN /\ core'.bayesian_optimizer.best_score =
                      Last(core'.bayesian_optimizer.observations)
               /\ core'.bayesian_optimizer.best_params =
                      Last(core'.bayesian_optimizer.parameter_history)
          ELSE /\ core'.bayesian_optimizer.best_score = core.bayesian_optimizer.best_score
               /\ core'.bayesian_optimizer.best_params = core.bayesian_optimizer.best_params]_vars

\* The best score was observed again, with other parameters, and the
\* earlier parameters were kept.
C10_Witness ==
    /\ Len(core.bayesian_optimizer.observations) >= 3
    /\ Last(core.bayesian_optimizer.observations) = core.bayesian_optimizer.best_score
    /\ FirstBest(core.bayesian_optimizer) = 2
    /\ core.bayesian_optimizer.best_params #
           Last(core.bayesian_optimizer.parameter_history)

InBounds(p, v) == RLeq(ParameterSpace[p].min, v) /\ RLeq(v, ParameterSpace[p].max)

\* C11: get_next_parameters takes the cold-start path (a fresh sample of
\* every declared parameter) while fewer than 3 observations exist and the
\* perturbation path from then on; whatever the draws, every parameter
\* value it returns is a declared parameter's and lies within that
\* parameter's [min, max].
C11_ProposalWithinBounds ==
    /\ proposal.kind # "none" => (proposal.path = "cold" <=> proposal.n_obs < 3)
    /\ proposal.path = "cold" =>
           /\ proposal.kind = "returned"
           /\ \A p \in DeclaredParams : proposal.values[p].has
    /\ proposal.kind = "returned" =>
           \A p \in AllParamNames :
               proposal.values[p].has =>
                   p \in DeclaredParams /\ InBounds(p, proposal.values[p].v)

\* The perturbation path pushed 0.05 past the upper bound and returned the
\* bound.
C11_Witness ==
    /\ proposal.kind = "returned"
    /\ proposal.path = "perturb"
    /\ core.bayesian_optimizer.best_params = "{learning_rate: 0.05}"
    /\ proposal.values["learning_rate"].v = ParameterSpace["learning_rate"].max
    /\ ~proposal.values["confidence_threshold"].has

\* A learn step whose RL update ran to its end.
RLApplied == LearnStep /\ Completed(steps', "rl")

\* The cell the RL update of this step writes, the next state's row, and
\* the target the update rule prescribes for this step's experience.
UpdatedState == get_state_hash(core.rl_agent, py_hash, ThisExperience.context)
UpdatedAction == PyHash(py_hash, ThisExperience.action_taken) % ActionSpaceSize
NextStateRow ==
    get_state_hash(core.rl_agent, py_hash,
                   IF ThisExperience.outcome.next_state = "absent" THEN "{}"
                   ELSE ThisExperience.outcome.next_state)
PrescribedTarget ==
    IF ThisExperience.outcome.episode_done = "true"
    THEN RatOf(ThisExperience.reward)
    ELSE RAdd(RatOf(ThisExperience.reward),
              RMul(DiscountFactor, RowMax(core.rl_agent, NextStateRow)))

\* C12: an RL update uses target = reward exactly when done is true,
\* whatever the next state's row holds, and target = reward +
\* discount_factor * max(Q[next_state]) otherwise; it sets Q[state, action]
\* to its old value plus learning_rate * (target - old value), and writes no
\* other cell.  Nothing but a completed RL update changes the table.
C12_QUpdateRule ==
    /\ [][RLApplied =>
            core'.rl_agent.q_table =
                [core.rl_agent.q_table EXCEPT ![UpdatedState][UpdatedAction] =
                    RAdd(@, RMul(RLLearningRate, RSub(PrescribedTarget, @)))]]_vars
    /\ [][core'.rl_agent.q_table # core.rl_agent.q_table => RLApplied]_vars

\* A terminal step (reward 1) updated a cell that held 0.1, in the row that
\* is also its next state's: 0.1 + 0.1 * (1 - 0.1) = 0.19.
C12_Witness ==
    /\ Completed(steps, "rl")
    /\ Last(core.learning_experiences).outcome.episode_done = "true"
    /\ \E s \in States : \E a \in Actions : core.rl_agent.q_table[s][a] = <<19, 100>>

\* r to the power k.
RECURSIVE RPow(_, _)
RPow(r, k) == IF k = 0 THEN One ELSE RMul(r, RPow(r, k - 1))

\* max(0.01, initial_epsilon x epsilon_decay^K) for the agent's K updates.
ClosedFormEpsilon ==
    RMax(EpsilonFloor,
         RMul(agent_log.initial_epsilon, RPow(EpsilonDecay, agent_log.updates)))

\* C13, as stated: after K consecutive RL updates, for every K >= 0 and
\* every initial epsilon in [0, 1], epsilon equals
\* max(0.01, initial_epsilon x epsilon_decay^K).
C13_EpsilonClosedForm == core.rl_agent.epsilon = ClosedFormEpsilon

\* C13, amended: after K >= 1 consecutive RL updates, for every initial
\* epsilon in [0, 1], epsilon equals max(0.01, initial_epsilon x
\* epsilon_decay^K); before the first update (K = 0) epsilon is the initial
\* epsilon itself, floored by nothing.
C13_EpsilonClosedFormAfterUpdates ==
    IF agent_log.updates = 0
    THEN core.rl_agent.epsilon = agent_log.initial_epsilon
    ELSE core.rl_agent.epsilon = ClosedFormEpsilon

\* Two updates from 2/199: the first lands on the floor exactly, the second
\* is held there (2/199 x 0.995^2 = 0.00995).
C13_Witness ==
    /\ agent_log.updates = 2
    /\ agent_log.initial_epsilon = <<2, 199>>
    /\ core.rl_agent.epsilon = EpsilonFloor
    /\ RLess(RMul(agent_log.initial_epsilon, RPow(EpsilonDecay, 2)), EpsilonFloor)

\* C14, as stated: epsilon is monotonically non-increasing and floored at
\* 0.01: no update makes epsilon larger than it was before, and once
\* epsilon is 0.01 it stays 0.01.
C14_EpsilonNeverIncreases ==
    /\ [][RLeq(core'.rl_agent.epsilon, core.rl_agent.epsilon)]_vars
    /\ [][core.rl_agent.epsilon = EpsilonFloor =>
              core'.rl_agent.epsilon = EpsilonFloor]_vars

\* C14, amended: no update makes an epsilon of at least 0.01 larger than it
\* was before or takes it below 0.01, and once epsilon is 0.01 it stays
\* 0.01; an epsilon that was constructed below 0.01 is raised to exactly
\* 0.01 by the agent's first update, the only increase there is.
C14_EpsilonNonIncreasingAboveFloor ==
    /\ [][RLeq(EpsilonFloor, core.rl_agent.epsilon) =>
              /\ RLeq(core'.rl_agent.epsilon, core.rl_agent.epsilon)
              /\ RLeq(EpsilonFloor, core'.rl_agent.epsilon)]_vars
    /\ [][core.rl_agent.epsilon = EpsilonFloor =>
              core'.rl_agent.epsilon = EpsilonFloor]_vars
    /\ [][RLess(core.rl_agent.epsilon, EpsilonFloor) =>
              /\ agent_log.updates = 0
              /\ core'.rl_agent.epsilon \in {core.rl_agent.epsilon, EpsilonFloor}
              /\ agent_log'.updates = 1 => core'.rl_agent.epsilon = EpsilonFloor]_vars

\* An agent constructed at the floor has stayed there over two updates.
C14_Witness ==
    /\ agent_log.updates = 2
    /\ agent_log.initial_epsilon = EpsilonFloor
    /\ core.rl_agent.epsilon = EpsilonFloor

\* C15: policy_strength() returns a value in [0, 1] for every Q-table
\* reachable by RL updates, tables with negative entries included.
C15_StrengthInUnitInterval ==
    IsNum(strength) => RLeq(Zero, RatOf(strength)) /\ RLeq(RatOf(strength), One)

\* C16: policy_strength() returns exactly 0 whenever the Q-table's maximum
\* entry is exactly 0, in particular on the all-zero table of a fresh
\* agent, and min(1, variance of all entries / maximum entry) otherwise.
C16_StrengthIsClampedRatio ==
    /\ agent_log.updates = 0 =>
           /\ \A s \in States : \A a \in Actions : core.rl_agent.q_table[s][a] = Zero
           /\ strength = Num(Zero)
    /\ TableMax(core.rl_agent) = Zero => strength = Num(Zero)
    /\ TableMax(core.rl_agent) # Zero =>
           strength = Num(RMin(One, RDiv(TableVariance(core.rl_agent),
                                         TableMax(core.rl_agent))))

\* One cell was raised to 6 and another lowered: the ratio is above 1 and
\* the result is 1.
C16_Witness ==
    /\ strength = Num(One)
    /\ TableMax(core.rl_agent) = <<6, 1>>
    /\ \E s \in States : \E a \in Actions : RLess(core.rl_agent.q_table[s][a], Zero)
    /\ RLess(One, RDiv(TableVariance(core.rl_agent), TableMax(core.rl_agent)))

\* The engine a request finds: the singleton, or the one the request
\* constructs from its config when there is none yet.
EngineFound(engine) ==
    IF made THEN engine = core
    ELSE \E config \in Configs : engine = EnhancedAutonomousLearningCore_init(config)

\* C17: get_analytics is a pure read: it leaves the history,
\* performance_metrics, learning_iteration, last_performance, the active
\* strategy, both strategies, the Q-table and epsilon as it found them (an
\* engine the request itself had to construct is left as constructed), so
\* analytics calls interleaved into a sequence of learn calls change no
\* learn result.
C17_AnalyticsIsPureRead ==
    [][request' = "analytics" =>
         /\ EngineFound(core')
         /\ result'.kind \in {"analytics", "raised"}
         /\ result'.kind = "analytics" =>
                /\ result'.learning_iteration = core'.learning_iteration
                /\ result'.total_experiences = Len(core'.learning_experiences)
                /\ result'.epsilon = core'.rl_agent.epsilon
         /\ UNCHANGED <<py_hash, now, successes, inserted, agent_log>>]_vars

\* Analytics was served between learn calls, on an engine that has learnt.
C17_Witness ==
    /\ request = "analytics"
    /\ result.kind = "analytics"
    /\ result.total_experiences = 2
    /\ result.learning_iteration = 1
    /\ core.learning_iteration = 1
    /\ core.rl_agent.epsilon # InitialEpsilon

\* C18: a request whose action is neither 'learn' nor 'analytics' returns
\* {error: 'Unknown action', success: false}, raises nothing, and leaves the
\* engine's learning state (history, metrics, learning_iteration,
\* last_performance, strategies, RL agent) as it found it.
C18_UnknownActionIsReported ==
    [][request' = "other" =>
         /\ result' = Failure("Unknown action")
         /\ EngineFound(core')
         /\ UNCHANGED <<py_hash, now, steps, successes, inserted, agent_log>>]_vars

\* An unknown action was reported by an engine that has learnt and failed.
C18_Witness ==
    /\ request = "other"
    /\ result = Failure("Unknown action")
    /\ core.learning_iteration = 1
    /\ Len(core.learning_experiences) = 2
    /\ steps = <<"history", "metrics">>

\* Requests whose experience leaves fields out: the empty experience, and
\* {action_taken, outcome: {performance}, reward} without context,
\* confidence, next_state and episode_done.
OmittingExperiences == {EmptyExperience, BuyHigh, BuyLow}

\* C19: a learn request whose experience omits fields (up to the empty
\* experience) is processed successfully: the record takes confidence 0.5,
\* an empty context and outcome, performance 0.0 and reward 0.0 for what is
\* absent, the call returns a summary and learning_iteration goes up by 1.
C19_MissingFieldsDefault ==
    [][(/\ LearnStep
        /\ inserted' # inserted
        /\ \E e \in OmittingExperiences : ThisExperience = LearningExperience(e, now))
       => /\ result'.kind = "summary"
          /\ result'.confidence = Num(<<1, 2>>)
          /\ ThisExperience.context = "{}"
          /\ ThisExperience.confidence = Num(<<1, 2>>)
          /\ ThisExperience = LearningExperience(EmptyExperience, now) =>
                 /\ ThisExperience.outcome = EmptyOutcome
                 /\ PerformanceOf(ThisExperience) = Num(Zero)
                 /\ ThisExperience.reward = Num(Zero)
          /\ core'.learning_iteration = core.learning_iteration + 1]_vars

BothDone == \A c \in Callers : calls.of[c].pc = "done"
Returned == [c \in Callers |-> calls.of[c].performance_improvement]

\* What the two calls return when one runs wholly before the other, on a
\* fresh engine: 0.8 then 0.6 - 0.8, or 0.6 then 0.8 - 0.6.
SerialImprovements ==
    { [c \in Callers |-> IF c = 1 THEN <<4, 5>> ELSE <<-1, 5>>],
      [c \in Callers |-> IF c = 1 THEN <<1, 5>> ELSE <<3, 5>>] }

\* The outcome is the one of the serial order in which caller first runs
\* before the other caller, computed with the whole handler.
SerialOutcome(first) ==
    \E second \in Callers \ {first} :
        \E r1 \in {learn_from_experience(EnhancedAutonomousLearningCore_init(AbsentVal),
                                         py_hash, ExperienceOf[first], 0)} :
            \E r2 \in {learn_from_experience(r1.self, py_hash,
                                             ExperienceOf[second], 1)} :
                /\ core = r2.self
                /\ Returned[first] = r1.result.performance_improvement
                /\ Returned[second] = r2.result.performance_improvement
                /\ calls.of[first].summary_iteration = r1.result.learning_iteration
                /\ calls.of[second].summary_iteration = r2.result.learning_iteration

\* C20: when the callers serialize access, two finished calls leave the
\* engine and return the improvements and iteration numbers of one of the two
\* serial orders; improvements that no serial order returns come only from
\* calls that were not serialized, where both calls read last_performance
\* before either wrote it (0.8 and 0.6 against the initial 0).
C20_SerializedCallsAreSerial ==
    /\ (calls.serialized /\ BothDone) =>
           /\ Returned \in SerialImprovements
           /\ \E first \in Callers : SerialOutcome(first)
    /\ (BothDone /\ Returned \notin SerialImprovements) =>
           /\ ~calls.serialized
           /\ Returned = [c \in Callers |-> IF c = 1 THEN <<4, 5>> ELSE <<3, 5>>]

\* Two interleaved calls have returned improvements that no serial order
\* returns.
C20_Witness ==
    /\ ~calls.serialized
    /\ BothDone
    /\ Returned \notin SerialImprovements
    /\ core.last_performance \in {<<4, 5>>, <<3, 5>>}

\* Two serialized calls have finished.
C20_SerializedWitness == calls.serialized /\ BothDone /\ core.learning_iteration = 2

BaseRateOf(config) == RatOf(Get(config, Num(DefaultLearningRate)))

\* C21: the engine is constructed by the first request and never again: it
\* exists exactly from the first request on, the gradient strategy's base
\* learning rate is the one of the constructing request's config for ever,
\* and every later request, whatever its config, works on the engine the
\* previous request left: analytics and unknown actions leave it as it is, a
\* learn request appends to its history and keeps or increments its
\* learning_iteration.
C21_SingleEngineFromFirstConfig ==
    /\ [](made <=> request # "none")
    /\ [](made => core.gradient_optimizer.base_learning_rate = BaseRateOf(seed_config))
    /\ [][made =>
            /\ made'
            /\ core'.gradient_optimizer.base_learning_rate
                   = core.gradient_optimizer.base_learning_rate
            /\ request' \in {"analytics", "other"} => core' = core
            /\ request' = "learn" =>
                   /\ core'.learning_iteration \in
                          {core.learning_iteration, core.learning_iteration + 1}
                   /\ Len(inserted') > Len(inserted) =>
                          core'.learning_experiences =
                              DequeAppend(core.learning_experiences, Last(inserted'),
                                          HistoryCapacity)
                   /\ Len(inserted') = Len(inserted) =>
                          core'.learning_experiences = core.learning_experiences]_vars

\* An engine constructed with learning_rate 1.0 has served three learn
\* requests: its state has accumulated and its base rate is still 1.0.
C21_Witness ==
    /\ made
    /\ seed_config = Num(One)
    /\ core.gradient_optimizer.base_learning_rate = One
    /\ core.gradient_optimizer.learning_rate # One
    /\ core.learning_iteration = 3
    /\ core.last_performance # Zero
    /\ Len(core.learning_experiences) = HistoryCapacity

SelectStep == selection' # selection
SelectedRow == core.rl_agent.q_table[get_state_hash(core.rl_agent, py_hash, selection'.state)]

\* C22: a select_action call returns an action id of the table; when the
\* random draw is not below epsilon (the greedy branch) the action is the
\* first column holding the maximum of the state's row; the call leaves the
\* agent, Q-table and epsilon included, as it was.
C22_SelectActionIsGreedyOrRandom ==
    [][SelectStep =>
        /\ selection'.called
        /\ selection'.action \in 0 .. (core.rl_agent.action_space_size - 1)
        /\ ~RLess(selection'.draw, core.rl_agent.epsilon) =>
               /\ \A a \in Actions : RLeq(SelectedRow[a], SelectedRow[selection'.action])
               /\ \A a \in Actions :
                      a < selection'.action =>
                          RLess(SelectedRow[a], SelectedRow[selection'.action])
        /\ core' = core]_vars

\* A greedy call on a row whose columns, after two updates, all hold the
\* same non-zero value returned action 0.
C22_Witness ==
    /\ selection.called
    /\ ~RLess(selection.draw, core.rl_agent.epsilon)
    /\ selection.action = 0
    /\ agent_log.updates = 2
    /\ \A a \in Actions : core.rl_agent.q_table[0][a] = core.rl_agent.q_table[0][0]
    /\ core.rl_agent.q_table[0][0] # Zero

\* A greedy call returned the last column, an exploring call returned it
\* although another column holds the maximum.
C22_GreedyLastColumn ==
    /\ selection.called
    /\ ~RLess(selection.draw, core.rl_agent.epsilon)
    /\ selection.action = ActionSpaceSize - 1
C22_ExploredOffMaximum ==
    /\ selection.called
    /\ RLess(selection.draw, core.rl_agent.epsilon)
    /\ RLess(core.rl_agent.q_table[0][selection.action], RowMax(core.rl_agent, 0))

Optimizer == core.gradient_optimizer
OldVelocity(p) == IF Optimizer.velocity[p].has THEN Optimizer.velocity[p].v ELSE Zero
NamedIn(gradients) ==
    IF gradients.t = "map"
    THEN { gradients.items[i].name : i \in 1 .. Len(gradients.items) }
    ELSE {}
GradientOf(gradients, p) ==
    RatOf((CHOOSE it \in { gradients.items[i] : i \in 1 .. Len(gradients.items) } :
               it.name = p).value)

\* C23: a gradient update with a numeric performance puts the performance
\* at the end of the window, after the value that was last before; with no
\* previous value the learning rate stays, with a newest value strictly
\* above the previous one it becomes min(rate * 1.1, 2 * base), otherwise
\* (equal values included) rate * 0.95; then every named gradient g sets
\* velocity[p] to 0.9 * velocity[p] + (adjusted rate) * g, a missing
\* velocity[p] counting as 0.
C23_TwoPointRuleThenVelocity ==
    [][Optimizer' # Optimizer =>
        /\ Len(Optimizer'.performance_history)
               = IF Len(Optimizer.performance_history) < WindowCapacity
                 THEN Len(Optimizer.performance_history) + 1
                 ELSE WindowCapacity
        /\ Len(Optimizer.performance_history) >= 1 =>
               Optimizer'.performance_history[Len(Optimizer'.performance_history) - 1]
                   = Optimizer.performance_history[Len(Optimizer.performance_history)]
        /\ Len(Optimizer.performance_history) = 0 =>
               Optimizer'.learning_rate = Optimizer.learning_rate
        /\ Len(Optimizer.performance_history) >= 1 =>
               Optimizer'.learning_rate =
                   IF RLess(RatOf(Optimizer.performance_history[
                                      Len(Optimizer.performance_history)]),
                            RatOf(Optimizer'.performance_history[
                                      Len(Optimizer'.performance_history)]))
                   THEN RMin(RMul(Optimizer.learning_rate, <<11, 10>>),
                             RMul(Optimizer.base_learning_rate, <<2, 1>>))
                   ELSE RMul(Optimizer.learning_rate, <<19, 20>>)
        /\ \A p \in NamedIn(fed_gradients') :
               /\ Optimizer'.velocity[p].has
               /\ Optimizer'.velocity[p].v =
                      RAdd(RMul(<<9, 10>>, OldVelocity(p)),
                           RMul(Optimizer'.learning_rate,
                                GradientOf(fed_gradients', p)))]_vars

\* An update has just raised the learning rate and moved an existing
\* velocity with the raised rate: 0.9 * 0.01 + 0.011 * (-1).
C23_Witness ==
    /\ Len(Optimizer.performance_history) = 2
    /\ Optimizer.learning_rate = <<11, 1000>>
    /\ fed_gradients.t = "map"
    /\ Optimizer.velocity["w"] = [has |-> TRUE, v |-> <<-1, 500>>]
    /\ Optimizer.velocity["b"] = [has |-> TRUE, v |-> <<11, 2000>>]

\* C24: a gradient update leaves the velocity entry of every parameter its
\* gradients do not name exactly as it was: it creates none, and an
\* existing one keeps its value; an entry that exists is never removed.
C24_UnnamedVelocitiesUntouched ==
    [][Optimizer' # Optimizer =>
        /\ \A p \in ParamNames \ NamedIn(fed_gradients') :
               Optimizer'.velocity[p] = Optimizer.velocity[p]
        /\ \A p \in ParamNames :
               Optimizer.velocity[p].has => Optimizer'.velocity[p].has]_vars

\* The last update named only b: the velocity of w is still the 0.01 its
\* first update gave it, and b has its entry; before it, b had none.
C24_Witness ==
    /\ fed_gradients = GradMap(<<[name |-> "b", value |-> Num(<<-2, 1>>)]>>)
    /\ Optimizer.velocity["w"] = [has |-> TRUE, v |-> <<1, 100>>]
    /\ Optimizer.velocity["b"].has
    /\ Len(Optimizer.performance_history) = 2

\* After three updates none of which named b, b has no velocity entry.
C24_NoEntryWitness ==
    /\ ~Optimizer.velocity["b"].has
    /\ Optimizer.velocity["w"].has
    /\ Optimizer.learning_rate = <<209, 20000>>

\* The RL update of this step's experience cannot raise: the context and the
\* next state are maps, the reward is a number, the action is hashable.
RLInputsValid ==
    /\ ThisExperience.context \in MapContexts
    /\ ThisExperience.outcome.next_state \in MapContexts \cup {"absent"}
    /\ IsNum(ThisExperience.reward)
    /\ ThisExperience.action_taken # "<list>"

\* C25: a learn call whose strategy step succeeded updates the RL agent
\* exactly when the update's inputs are valid, and then exactly once: one
\* cell of the table changes, in row state_hash(context) and column
\* hash(action_taken) mod action_space_size, both inside the table, by one
\* application of the update rule to the experience's reward, next state
\* (the empty map when missing) and done flag (false when missing), and
\* epsilon decays once; a call that does not update the agent leaves it as
\* it was.  The hash of a string does not change within a process.
C25_OneRLUpdatePerCall ==
    /\ [][(LearnStep /\ Completed(steps', "strategy")) =>
            (Completed(steps', "rl") <=> RLInputsValid)]_vars
    /\ [][RLApplied =>
            /\ Completed(steps', "strategy")
            /\ UpdatedState \in 0 .. (StateSpaceSize - 1)
            /\ UpdatedAction \in 0 .. (ActionSpaceSize - 1)
            /\ \A s \in States : \A a \in Actions :
                   core'.rl_agent.q_table[s][a] =
                       IF s = UpdatedState /\ a = UpdatedAction
                       THEN RAdd(RMul(<<9, 10>>, core.rl_agent.q_table[s][a]),
                                 RMul(<<1, 10>>, PrescribedTarget))
                       ELSE core.rl_agent.q_table[s][a]
            /\ core'.rl_agent.epsilon
                   = RMax(<<1, 100>>, RMul(core.rl_agent.epsilon, <<199, 200>>))]_vars
    /\ [][(LearnStep /\ ~Completed(steps', "rl")) => core'.rl_agent = core.rl_agent]_vars
    /\ [][py_hash' = py_hash]_vars

\* Two calls updated the agent, the last one in row 1, column 1: epsilon is
\* 0.1 * 0.995 * 0.995.
C25_Witness ==
    /\ Completed(steps, "rl")
    /\ core.rl_agent.epsilon = <<39601, 400000>>
    /\ get_state_hash(core.rl_agent, py_hash, Last(inserted).context) = 1
    /\ PyHash(py_hash, Last(inserted).action_taken) % ActionSpaceSize = 1
    /\ core.rl_agent.q_table[1][1] # Zero

Least(a, b) == IF a < b THEN a ELSE b

\* The records the analytics must look at: the last min(window, held) of
\* the records ever appended.
Held == Least(HistoryCapacity, Len(inserted))
Window == LastN(inserted, Least(RecentWindow, Held))
WindowPerformances == [i \in 1 .. Len(Window) |-> RatOf(PerformanceOf(Window[i]))]
WindowConfidences == [i \in 1 .. Len(Window) |-> RatOf(Window[i].confidence)]

\* mean and variance are the population mean and variance of xs.
IsMeanVariance(xs, mean, variance) ==
    /\ RMul(mean, <<Len(xs), 1>>) = SeqSum(xs)
    /\ RMul(variance, <<Len(xs), 1>>)
           = SeqSum([i \in 1 .. Len(xs) |->
                        RMul(RSub(xs[i], mean), RSub(xs[i], mean))])

\* C26: the result of an analytics request reports as total_experiences the
\* number of records the bounded history holds, min(capacity, records ever
\* appended), records of failed calls included; its performance statistics
\* are the population mean and variance (the square of 'std'), the minimum
\* and the maximum of the performance values of the last min(window,
\* total_experiences) records appended, its confidence statistics the mean
\* and variance of their confidence values; with no record every statistic
\* is 0.
C26_AnalyticsOverRecentWindow ==
    (request = "analytics" /\ result.kind = "analytics") =>
        /\ result.total_experiences = Len(core.learning_experiences)
        /\ result.total_experiences = Held
        /\ Held = 0 =>
               /\ result.performance_trend = NoTrend
               /\ result.confidence_trend = [mean |-> Zero, variance |-> Zero]
        /\ Held > 0 =>
               /\ IsMeanVariance(WindowPerformances, result.performance_trend.mean,
                                 result.performance_trend.variance)
               /\ IsMeanVariance(WindowConfidences, result.confidence_trend.mean,
                                 result.confidence_trend.variance)
               /\ \E i \in 1 .. Len(Window) :
                      WindowPerformances[i] = result.performance_trend.min
               /\ \E i \in 1 .. Len(Window) :
                      WindowPerformances[i] = result.performance_trend.max
               /\ \A i \in 1 .. Len(Window) :
                      /\ RLeq(result.performance_trend.min, WindowPerformances[i])
                      /\ RLeq(WindowPerformances[i], result.performance_trend.max)

\* Analytics over a history that has wrapped: five records were appended,
\* one of them by a failed call; the history holds three, and the oldest of
\* them, outside the window, has a performance above the reported maximum.
C26_Witness ==
    /\ request = "analytics"
    /\ result.kind = "analytics"
    /\ Len(inserted) = HistoryCapacity + 2
    /\ successes < now
    /\ result.total_experiences = HistoryCapacity
    /\ RLess(result.performance_trend.min, result.performance_trend.max)
    /\ result.confidence_trend.variance # Zero
    /\ RLess(result.performance_trend.max,
             RatOf(PerformanceOf(core.learning_experiences[1])))

\* Analytics on a fresh engine.
C26_EmptyWitness ==
    /\ request = "analytics"
    /\ result.kind = "analytics"
    /\ result.total_experiences = 0

\* C27: the active strategy is 'gradient' in every state, every result that
\* names the strategy names it, and the Bayesian strategy stays as
\* constructed; every learn call that reaches the dispatch (its metric step
\* completed and its context is a map) runs the Gradient strategy's update,
\* which puts the call's performance at the end of the strategy's window.
C27_GradientIsAlwaysActive ==
    /\ [](core.current_optimizer = "gradient")
    /\ [](core.bayesian_optimizer = BayesianOptimizer_init)
    /\ [](result.kind \in {"summary", "analytics"} =>
              result.current_optimizer = "gradient")
    /\ [][(LearnStep /\ Completed(steps', "metrics")
                     /\ ThisExperience.context # "notmap") =>
            /\ Len(core'.gradient_optimizer.performance_history) >= 1
            /\ Last(core'.gradient_optimizer.performance_history)
                   = PerformanceOf(ThisExperience)]_vars

\* Three learn calls succeeded: the Gradient strategy's window is full and
\* its learning rate has moved, the Bayesian strategy is as constructed.
C27_Witness ==
    /\ core.learning_iteration = 3
    /\ result.kind = "summary"
    /\ result.current_optimizer = "gradient"
    /\ Len(core.gradient_optimizer.performance_history) = WindowCapacity
    /\ core.gradient_optimizer.learning_rate
           # core.gradient_optimizer.base_learning_rate
    /\ core.bayesian_optimizer.observations = <<>>
    /\ core.bayesian_optimizer.best_params = "None"
    /\ core.bayesian_optimizer.best_score = NegInf

\* The engine the request of this step works on: the singleton, or the one
\* the request constructs when it is the first.
Found == IF made THEN core ELSE EnhancedAutonomousLearningCore_init(seed_config')

\* What this step did, read off the engine: a record was appended to the
\* history, a metric entry was appended, last_performance was assigned this
\* call's performance, the agent changed, the counter moved.
HistoryAppended == Len(inserted') = Len(inserted) + 1
MetricAppended == Len(core'.performance_metrics) = Len(Found.performance_metrics) + 1
StrategyApplied ==
    /\ IsNum(PerformanceOf(ThisExperience))
    /\ core'.last_performance = RatOf(PerformanceOf(ThisExperience))
    /\ Len(core'.gradient_optimizer.performance_history) >= 1
    /\ Last(core'.gradient_optimizer.performance_history) = PerformanceOf(ThisExperience)
AgentChanged == core'.rl_agent # Found.rl_agent
IterationMoved == core'.learning_iteration # Found.learning_iteration

\* C28: in a learn call a later step happens only when the earlier ones
\* did: a metric entry only after the history append, the strategy update
\* only after the metric entry, a change of the RL agent or of the counter
\* only after the strategy update; a call that fails (in the metric step or
\* in the strategy step) leaves the RL agent, Q-table and epsilon, and
\* last_performance as they were, and a call that fails before the strategy
\* step also leaves the Gradient strategy as it was.
C28_StepsInOrderAndFailureStops ==
    /\ [][LearnStep =>
            /\ MetricAppended => HistoryAppended
            /\ core'.gradient_optimizer # Found.gradient_optimizer => MetricAppended
            /\ core'.last_performance # Found.last_performance => MetricAppended
            /\ AgentChanged => (MetricAppended /\ StrategyApplied)
            /\ IterationMoved => (MetricAppended /\ StrategyApplied)
            /\ ~MetricAppended => core' = [Found EXCEPT !.learning_experiences =
                                                core'.learning_experiences]]_vars
    /\ [][(LearnStep /\ result'.kind = "failure") =>
            /\ core'.rl_agent = Found.rl_agent
            /\ core'.last_performance = Found.last_performance
            /\ core'.learning_iteration = Found.learning_iteration]_vars
    /\ [][~LearnStep =>
            /\ core'.performance_metrics = Found.performance_metrics
            /\ core'.rl_agent = Found.rl_agent
            /\ core'.last_performance = Found.last_performance]_vars

\* A call with a performance that is not a number failed in the strategy
\* step, on an engine that had learnt once: its context, reward and action
\* would have been valid inputs of the RL update, and the agent still has
\* the single update of the earlier call.
C28_Witness ==
    /\ result.kind = "failure"
    /\ steps = <<"history", "metrics">>
    /\ ~IsNum(PerformanceOf(Last(inserted)))
    /\ Last(inserted).context \in MapContexts
    /\ IsNum(Last(inserted).reward)
    /\ core.learning_iteration = 1
    /\ core.last_performance = <<4, 5>>
    /\ core.rl_agent.epsilon = <<199, 2000>>
    /\ Len(core.performance_metrics) = 2

\* This step's learn request carries a well-formed experience: its record
\* was appended, context and outcome are maps, performance and reward are
\* numbers, and so is every gradient and the confidence; the next state, if
\* there is one, is a map and the action is a string.
WellFormedExperience ==
    /\ Len(inserted') = Len(inserted) + 1
    /\ ThisExperience.context \in MapContexts
    /\ ThisExperience.outcome.t = "map"
    /\ IsNum(PerformanceOf(ThisExperience))
    /\ IsNum(ThisExperience.reward)
    /\ IsNum(ThisExperience.confidence)
    /\ ThisExperience.outcome.gradients.t \in {"map", "absent"}
    /\ \A i \in 1 .. Len(ThisExperience.outcome.gradients.items) :
           IsNum(ThisExperience.outcome.gradients.items[i].value)
    /\ ThisExperience.outcome.next_state \in MapContexts \cup {"absent"}
    /\ ThisExperience.action_taken # "<list>"

\* C29: once a learn call has failed, every later learn call with a
\* well-formed experience returns a success summary and raises
\* learning_iteration by one.
C29_FailuresDoNotCarryOver ==
    [][(LearnStep /\ successes < now /\ WellFormedExperience) =>
        /\ result'.kind = "summary"
        /\ core'.learning_iteration = core.learning_iteration + 1]_vars

Iterations == core.learning_iteration
Metrics == Len(core.performance_metrics)
Appended == Len(inserted)

\* The metric list only ever grows at its end, by the entry of a learn call
\* that reached the metric step: that call's performance and timestamp.
MetricsAppendOnly ==
    [][\/ core'.performance_metrics = Found.performance_metrics
       \/ /\ LearnStep
          /\ Completed(steps', "metrics")
          /\ core'.performance_metrics =
                 Append(Found.performance_metrics,
                        [value |-> PerformanceOf(ThisExperience),
                         timestamp |-> ThisExperience.timestamp])]_vars
MetricStepAppends ==
    [][(LearnStep /\ Completed(steps', "metrics")) =>
            Len(core'.performance_metrics) = Len(Found.performance_metrics) + 1]_vars

\* C30 as stated: learning_iteration <= number of metric entries <= number
\* of records ever appended; the metric list is append-only; the three
\* counts are equal exactly when no learn call has failed.
C30_CountsEqualIffNoFailure ==
    /\ [](Iterations <= Metrics /\ Metrics <= Appended)
    /\ MetricsAppendOnly
    /\ MetricStepAppends
    /\ []((Iterations = Metrics /\ Metrics = Appended) <=> successes = now)

\* C30, amended: learning_iteration <= number of metric entries <= number
\* of records ever appended; the metric list is append-only; the three
\* counts are equal exactly when every call that appended a record
\* succeeded, that is when no call has failed after its history append (a
\* call that fails before it, on an experience that is not a map, appends
\* nothing and leaves the three counts as they are).
C30_CountsEqualIffNoFailureAfterAppend ==
    /\ [](Iterations <= Metrics /\ Metrics <= Appended)
    /\ MetricsAppendOnly
    /\ MetricStepAppends
    /\ []((Iterations = Metrics /\ Metrics = Appended) <=> Appended = successes)
    /\ [](successes = now => (Iterations = Metrics /\ Metrics = Appended))
    /\ [][(LearnStep /\ result'.kind = "failure" /\ Len(inserted') = Len(inserted)) =>
            /\ core'.learning_iteration = Found.learning_iteration
            /\ core'.performance_metrics = Found.performance_metrics]_vars

\* One of three calls failed, on an experience that is not a map: the three
\* counts are all 2.
C30_Witness ==
    /\ now = 3
    /\ successes = 2
    /\ Iterations = 2
    /\ Metrics = 2
    /\ Appended = 2

\* The counts are strictly ordered: three records appended, two metric
\* entries, one iteration.
C30_StrictWitness == Iterations = 1 /\ Metrics = 2 /\ Appended = 3

\* ------------------------------------------------------------------ C31
\* The learn request that has just returned a success summary.
SummaryReturned == request = "learn" /\ result.kind = "summary"

\* The analytics request that has just returned its report.
AnalyticsReturned == request = "analytics" /\ result.kind = "analytics"

\* C31: the learning_iteration of a success summary is the counter before
\* that call's increment, so the n-th successful call returns n - 1, and an
\* analytics request reports the counter after it: made right after the
\* n-th successful call it reports n, one more than the summary did.
C31_SummaryReportsCounterBeforeIncrement ==
    /\ [](SummaryReturned => result.learning_iteration = successes - 1)
    /\ [](AnalyticsReturned => result.learning_iteration = successes)
    /\ [][(SummaryReturned /\ request' = "analytics")
              => /\ AnalyticsReturned'
                 /\ result'.learning_iteration = result.learning_iteration + 1]_vars

\* The second successful call came third, after a call that failed, and
\* returned 1.
C31_Witness ==
    /\ SummaryReturned
    /\ successes = 2
    /\ now = 3
    /\ result.learning_iteration = 1
    /\ core.learning_iteration = 2

\* The analytics request right after the second successful call reports 2.
C31_AnalyticsWitness ==
    /\ AnalyticsReturned
    /\ successes = 2
    /\ result.learning_iteration = 2
    /\ result.total_experiences = 3

\* ------------------------------------------------------------------ C32
\* A step that is a completed update_q_value of the agent.
UpdateStep == agent_log'.updates = agent_log.updates + 1

\* The row the update writes: the hash of the state it was called with, the
\* state of the preceding selection.
SelectedStateRow == get_state_hash(core.rl_agent, py_hash, selection.state)

\* What an update may change: the cell [row, action] and epsilon.
OnlyCellAndEpsilon(before, after, row, action) ==
    after = [before EXCEPT !.q_table[row][action] = after.q_table[row][action],
                           !.epsilon = after.epsilon]

\* C32: an RL update(state, action, ...) changes at most the cell
\* [state_hash(state), action] of the Q-table and epsilon: every other cell,
\* the table's dimensions, learning_rate, discount_factor and epsilon_decay
\* are as before, and the experience_buffer is never written and stays
\* empty.
C32_UpdateWritesOneCellAndEpsilon ==
    /\ [][UpdateStep =>
            /\ OnlyCellAndEpsilon(core.rl_agent, core'.rl_agent,
                                  SelectedStateRow, selection.action)
            /\ \A s \in States : \A a \in Actions :
                   (s # SelectedStateRow \/ a # selection.action)
                       => core'.rl_agent.q_table[s][a] = core.rl_agent.q_table[s][a]
            /\ DOMAIN core'.rl_agent.q_table = 0 .. (StateSpaceSize - 1)
            /\ \A s \in States :
                   DOMAIN core'.rl_agent.q_table[s] = 0 .. (ActionSpaceSize - 1)
            /\ core'.rl_agent.state_space_size = core.rl_agent.state_space_size
            /\ core'.rl_agent.action_space_size = core.rl_agent.action_space_size
            /\ core'.rl_agent.learning_rate = core.rl_agent.learning_rate
            /\ core'.rl_agent.discount_factor = core.rl_agent.discount_factor
            /\ core'.rl_agent.epsilon_decay = core.rl_agent.epsilon_decay
            /\ core'.rl_agent.experience_buffer = <<>>]_vars
    /\ [](core.rl_agent.experience_buffer = <<>>)

\* Two updates of the cell [1, 1], the second one for an action the
\* selection explored: that cell alone differs from the table's initial
\* zeros.
C32_Witness ==
    /\ agent_log.updates = 2
    /\ selection.called
    /\ selection.state = "{market: up}"
    /\ selection.action = 1
    /\ selection.draw = Zero
    /\ ~RLeq(core.rl_agent.q_table[1][1], <<1, 10>>)
    /\ \A s \in States : \A a \in Actions :
           (s # 1 \/ a # 1) => core.rl_agent.q_table[s][a] = Zero
    /\ core.rl_agent.experience_buffer = <<>>

\* ------------------------------------------------------------------ C33
\* A learn call whose RL update was reached and raised.
RLRaised ==
    /\ LearnStep
    /\ Completed(steps', "strategy")
    /\ ~Completed(steps', "rl")

\* C33: an RL update that raises inside a learn call leaves the agent as it
\* was, no cell of the Q-table written and epsilon not decayed, so after any
\* sequence of learn calls epsilon is max(0.01, 0.1 x 0.995^m), where 0.1 is
\* the epsilon the engine's agent starts with and m counts the calls whose
\* RL step completed.
C33_RaisingUpdateLeavesAgent ==
    /\ [][RLRaised =>
            /\ \A s \in States : \A a \in Actions :
                   core'.rl_agent.q_table[s][a] = Found.rl_agent.q_table[s][a]
            /\ core'.rl_agent.epsilon = Found.rl_agent.epsilon
            /\ core'.rl_agent = Found.rl_agent]_vars
    /\ [](core.rl_agent.epsilon =
              RMax(<<1, 100>>,
                   RMul(<<1, 10>>, RPow(<<199, 200>>, agent_log.updates))))

\* The fourth call's RL update raised on its reward, after two calls whose RL
\* update completed and one whose update raised: epsilon is 0.1 x 0.995^2.
C33_Witness ==
    /\ now = 4
    /\ agent_log.updates = 2
    /\ Completed(steps, "strategy")
    /\ ~Completed(steps, "rl")
    /\ ~IsNum(Last(inserted).reward)
    /\ core.rl_agent.epsilon = <<39601, 400000>>
    /\ \E s \in States : \E a \in Actions : core.rl_agent.q_table[s][a] # Zero

====
